---- MODULE Spec2Model ----
(***************************************************************************)
(* State-machine model of the weight subsystem of BlitzMem: the ring       *)
(* buffer dead-letter queue DLQOss (src/weight/dlq_oss.go) and the event   *)
(* hub EventHubImpl (src/weight/event_hub.go).                             *)
(*                                                                         *)
(* Every caller goroutine is a process p with a program counter pc[p];     *)
(* one step of a process is one access to shared memory (an atomic load,   *)
(* store, add or compare-and-swap, a channel operation, a mutex            *)
(* operation).  A Go run-time panic that nobody recovers ends the program: *)
(* it sets panicked, and no action is enabled afterwards.                  *)
(***************************************************************************)
EXTENDS Integers, Sequences, FiniteSets, TLC

\* ------------------------------------------------------------- constants
\* src/weight/dlq_oss.go, const block of the ring buffer queue
minCapacity == 32
maxCapacity == 1048576
shrinkFactor == 4
shrinkStep == 2
growFactor == 2
\* const batch in DLQOss.Pop
batch == 10

\* --------------------------------------------------------------- bounds
\* number of event ids Push may draw, number of Pop calls counted
MaxPush == 43
MaxPop == 11

\* capacity arguments handed to newDLQOss: below the minimum, and large
\* enough for a shrink (count > 32 and count < capacity / 4)
CapArgs == {0, 136}

\* hub: listeners registered, events dispatched
MaxRegister == 2
MaxDispatch == 2

\* src/common/type.go, SizeCategory
SmallSizeCategory == 0
MediumSizeCategory == 1
LargeSizeCategory == 2
AllSizeCategory == 3
Categories == {SmallSizeCategory, MediumSizeCategory, LargeSizeCategory, AllSizeCategory}

\* the filters handed to Register and the categories of the events handed
\* to Dispatch: equal, different, and the filter that takes every event
ListenerCats == {SmallSizeCategory, AllSizeCategory}
EventCats == {SmallSizeCategory, MediumSizeCategory}

\* the tags and the bufferSize arguments handed to Register
Tags == {"a", "b"}
BufferSizes == {0, 1}

SeqProcs == {1}
AllProcs == {1, 2}

\* src/weight/provider.go: the states of the provider, the capacity of its
\* output channel, the attempts of handleFileRemoval
StoppedState == 0
RunningState == 1
outputCap == 100
maxAttempts == 5

\* provider: changes made to the file, successful Watch calls
MaxFileEvents == 3
MaxWatch == 2
\* the file is absent, or holds one of the configurations
NoFile == 0
FileContents == {1, 2}

\* processor: weights are counted in units of 0.0005, so that the required
\* total 1.0 is 2000 units and the tolerance 0.001 is 2 units
requireTotal == 2000
tolerance == 2
\* processor: the longest list of weights of a size class
MaxWeights == 2
\* core manager: weights are counted in hundredths; the CPU counts go from 1
\* to MaxCores, with the counts around the thresholds of calculateShards
MaxCores == 8
SmallSizeClassNums == 10

\* a nil *DLQEvent, and the fresh empty event &DLQEvent{} Pop hands out
\* the cache: the size classes, the slots of a row of L1 and the slots of L2
numSizeClasses == 19
L1Sizes == 128
L2Slots == 1024
\* cache: calls of tryPut and tryAlloc
MaxCacheOps == 4
\* the nil pointer; the blocks are numbered from 1
NilPtr == 0
CachePtrs == {1, 2}

NilEv == 0
EmptyEv == -1

VARIABLES
    \* DLQOss
    closeCh,      \* TRUE once close(d.closeCh) ran
    once,         \* d.once: "new", "running", "done"
    bufNil,       \* TRUE once Close assigned d.buf = nil
    mu,           \* d.mu: 0 when free, else the process holding it
    eventID,      \* d.eventID
    popCounter,   \* d.popCounter
    m,            \* d.m: event id -> position
    \* RingBuffer
    head, tail, capacity, count,
    buflen,       \* len(r.buf)
    buf,          \* r.buf: the non-nil slots, position -> event id
    state,        \* r.state
    \* processes
    pc, loc, res,
    budget,       \* calls that may still begin; -1 when unbounded
    panicked,
    \* history of the calls that returned
    nPushOk,      \* Push calls that returned nil
    nPopEv,       \* Pop calls that returned a stored event
    pending,      \* ids whose Push returned nil and that no Pop returned yet
    \* EventHubImpl
    hCloseCh,     \* TRUE once close(d.closeCh) ran
    hOnce,        \* d.once: "new", "running", "done"
    hmu,          \* d.mu: 0 when free, else the process holding the write lock
    listeners,    \* len(d.listeners)
    larr,         \* the backing array of d.listeners, cap(d.listeners) long
    chans,        \* the channels made by Register
    hpc, hloc,    \* the callers of the hub
    nDispatch,    \* events handed to Dispatch so far
    \* FileProvider
    fState,       \* f.state: StoppedState or RunningState
    fCh,          \* f.ch: 0 when nil, else the index of the channel in fChans
    fChans,       \* the channels made by Watch: the configurations sent on
                  \* each (with the sender), and whether it is closed
    fCloseCh,     \* TRUE once close(f.closeCh) ran
    fWatcher,     \* f.watcher: "nil", "open", "closed"
    fEvents,      \* f.watcher.Events: the file events not yet taken
    fTimer,       \* f.debounceTimer: 0 when nil, else the index in fTimers
    fTimers,      \* the timers made so far
    fPending,     \* f.debouncePending
    fLock,        \* f.debounceLock: TRUE while held
    fWg,          \* the counter of f.wg
    file,         \* the content of the file at f.filepath, NoFile if absent
    loops,        \* the watchLoop goroutines: where each is
    nLoops,       \* watchLoop goroutines started
    ppc, ploc,    \* the callers of Watch and Close
    pres,         \* what the call that returned last returned
    nFileEvents,  \* changes made to the file so far
    \* ProcessorImpl
    ncfg,         \* the configuration handed to Normalize
    nres,         \* what Normalize returned
    \* ManagerImpl
    mState,       \* m.state
    mCloseCh,     \* TRUE once close(m.closeCh) ran
    mWg,          \* the counter of m.wg
    mWatcher,     \* m.watcher: the index of the channel in fChans
    mLoop,        \* the asyncLoop goroutine: where it is, and the size
                  \* categories whose event it has still to dispatch
    mpc,          \* the caller of Close of the manager
    mres,         \* what the call of the manager that returned last returned
    \* the functions of the allocator and of the core manager
    fnArgs,       \* the arguments of the call
    fnRet,        \* what the call returned
    \* systemCache
    l1counters,   \* l1.counters
    l1slots,      \* l1.slots: for each row, the pointers stored in it
    l2slots,      \* l2.slots, up to the last slot ever written
    l2size,       \* l2.size
    cpc, cloc,    \* the callers of the cache
    cres,         \* what the call of the cache that returned last returned
    nCacheOps     \* calls of the cache begun so far

dlqVars == <<closeCh, once, bufNil, mu, eventID, popCounter, m, head, tail,
             capacity, count, buflen, buf, state>>
histVars == <<nPushOk, nPopEv, pending>>
procVars == <<pc, loc, res, budget>>
hubVars == <<hCloseCh, hOnce, hmu, listeners, larr, chans, hpc, hloc, nDispatch>>
provVars == <<fState, fCh, fChans, fCloseCh, fWatcher, fEvents, fTimer, fTimers,
              fPending, fLock, fWg, file, loops, nLoops, ppc, ploc, pres,
              nFileEvents>>
normVars == <<ncfg, nres>>
mgrVars == <<mState, mCloseCh, mWg, mWatcher, mLoop, mpc, mres>>
\* what the actions of the queue, of the hub, of the provider, of the
\* processor and of the manager leave alone
callVars == <<fnArgs, fnRet>>
cacheVars == <<l1counters, l1slots, l2slots, l2size, cpc, cloc, cres, nCacheOps>>
restOfDLQ == <<hubVars, provVars, normVars, mgrVars, callVars,
    cacheVars>>
restOfHub == <<dlqVars, histVars, procVars, provVars, normVars, mgrVars, callVars,
    cacheVars>>
restOfProvider == <<dlqVars, histVars, procVars, hubVars, normVars, mgrVars, callVars,
    cacheVars>>
restOfProcessor == <<dlqVars, histVars, procVars, hubVars, provVars, mgrVars, callVars,
    cacheVars>>
restOfManager == <<dlqVars, histVars, procVars, normVars, callVars,
    cacheVars>>
restOfCall == <<dlqVars, histVars, procVars, hubVars, provVars, normVars, mgrVars, cacheVars>>
restOfCache == <<dlqVars, histVars, procVars, hubVars, provVars, normVars, mgrVars, callVars>>
vars == <<closeCh, once, bufNil, mu, eventID, popCounter, m, head, tail,
          capacity, count, buflen, buf, state, pc, loc, res, budget, panicked,
          nPushOk, nPopEv, pending,
          hCloseCh, hOnce, hmu, listeners, larr, chans, hpc, hloc, nDispatch,
          fState, fCh, fChans, fCloseCh, fWatcher, fEvents, fTimer, fTimers,
          fPending, fLock, fWg, file, loops, nLoops, ppc, ploc, pres,
          nFileEvents, ncfg, nres,
          mState, mCloseCh, mWg, mWatcher, mLoop, mpc, mres, fnArgs, fnRet,
          l1counters, l1slots, l2slots, l2size, cpc, cloc, cres, nCacheOps>>

Min(a, b) == IF a < b THEN a ELSE b
Max(a, b) == IF a > b THEN a ELSE b

\* the empty map / empty slice of pointers
NoSlots == [i \in {} |-> 0]

\* a[i] of a slice of pointers whose nil slots are left out
Slot(b, i) == IF i \in DOMAIN b THEN b[i] ELSE NilEv
SetSlot(b, i, e) == [j \in (DOMAIN b) \cup {i} |-> IF j = i THEN e ELSE b[j]]
ClearSlot(b, i) == [j \in (DOMAIN b) \ {i} |-> b[j]]

\* locals of a call; NoLoc between calls
NoLoc == [ctx |-> FALSE, ev |-> NilEv, capacity |-> 0, cur |-> 0, pos |-> 0,
          head |-> 0, tail |-> 0, slots |-> 0]
\* what the last call of a process returned: the operation, the error, the
\* event (for GetSize, the size) and whether its context was cancelled
NoRes == [op |-> "none", err |-> "nil", ev |-> NilEv, ctx |-> FALSE]

\* newDLQOss(capacity) with newRingBuffer
newDLQOss(arg) ==
    LET c == IF arg < minCapacity THEN minCapacity ELSE arg IN
    /\ closeCh = FALSE /\ once = "new" /\ bufNil = FALSE /\ mu = 0
    /\ eventID = 0 /\ popCounter = 0 /\ m = NoSlots
    /\ head = 0 /\ tail = 0 /\ capacity = c /\ count = 0
    /\ buflen = c /\ buf = NoSlots /\ state = TRUE

\* locals of a call on the hub: the tag, the event, the slice it ranges
\* over, the index of the range loop and what the last select did.  The
\* slice of Dispatch is a length and a backing array: the array of
\* d.listeners while shared, its own array (own) once d.listeners moved to
\* a new one.
NoHLoc == [tag |-> "", ev |-> [category |-> 0, id |-> 0],
           snap |-> [shared |-> TRUE, own |-> <<>>, len |-> 0],
           i |-> 0, last |-> "none"]

\* newEventHubImpl: listeners is []Listener{}, a slice of capacity 0
newEventHubImpl ==
    /\ hCloseCh = FALSE /\ hOnce = "new" /\ hmu = 0
    /\ larr = <<>>
    /\ listeners = 0
    /\ chans = <<>>
    /\ hpc = [p \in AllProcs |-> "idle"]
    /\ hloc = [p \in AllProcs |-> NoHLoc]
    /\ nDispatch = 0

\* a watchLoop goroutine that was not started, the result of no call
NoLoop == [pc |-> "off", i |-> 0]
NoPRes == [op |-> "none", err |-> "nil", ch |-> 0]

\* NewFileProvider, on a file that exists: the state is StoppedState, the
\* channel, the watcher and the timer are nil, closeCh is open
NewFileProviderOn(content) ==
    /\ fState = StoppedState /\ fCh = 0 /\ fChans = <<>> /\ fCloseCh = FALSE
    /\ fWatcher = "nil" /\ fEvents = <<>>
    /\ fTimer = 0 /\ fTimers = <<>> /\ fPending = FALSE /\ fLock = FALSE
    /\ fWg = 0
    /\ file = content
    /\ loops = [k \in 1..MaxWatch |-> NoLoop] /\ nLoops = 0
    /\ ppc = [p \in AllProcs |-> "idle"]
    /\ ploc = [p \in AllProcs |-> NoFile]
    /\ pres = NoPRes
    /\ nFileEvents = 0

\* the provider of a file that holds configuration 1
NewFileProvider == NewFileProviderOn(1)

\* ------------------------------------------------------------ ProcessorImpl
\* a float64 weight: a number of units, or NaN (a YAML or TOML file can hold
\* one)
Num(v) == [nan |-> FALSE, v |-> v]
NaN == [nan |-> TRUE, v |-> 0]

\* float64 addition, subtraction, math.Abs and >=: an operation on NaN gives
\* NaN, a comparison with NaN is false
fadd(a, b) == IF a.nan \/ b.nan THEN NaN ELSE Num(a.v + b.v)
fsub(a, b) == IF a.nan \/ b.nan THEN NaN ELSE Num(a.v - b.v)
fabs(a) == IF a.nan THEN NaN ELSE Num(IF a.v < 0 THEN 0 - a.v ELSE a.v)
fge(a, b) == ~a.nan /\ ~b.nan /\ a.v >= b.v

\* common.Config{}: every weight is zero, every list of weights is nil
ZeroConfig ==
    [Global |-> [Large |-> Num(0), Medium |-> Num(0), Small |-> Num(0)],
     SizeClass |-> [Small |-> <<>>, Medium |-> <<>>, Large |-> <<>>]]
NoNRes == [op |-> "none", cfg |-> ZeroConfig, err |-> "nil"]

newProcessorImpl == ncfg = ZeroConfig /\ nres = NoNRes

\* total := 0.0; for _, w := range weights { total += w.Weight }
RECURSIVE sumFrom(_, _)
sumFrom(total, weights) ==
    IF weights = <<>> THEN total
    ELSE sumFrom(fadd(total, Head(weights)), Tail(weights))

\* math.Abs(total-requireTotal) >= tolerance
outOfTolerance(total) ==
    fge(fabs(fsub(total, Num(requireTotal))), Num(tolerance))

\* a Normalize that accepts every configuration
NormalizeAcceptsAll(cfg) == [cfg |-> cfg, err |-> "nil"]

Normalize(cfg) ==
    LET globalTotal ==
            fadd(fadd(cfg.Global.Large, cfg.Global.Medium), cfg.Global.Small)
        smallTotal == sumFrom(Num(0), cfg.SizeClass.Small)
        mediumTotal == sumFrom(Num(0), cfg.SizeClass.Medium)
        largeTotal == sumFrom(Num(0), cfg.SizeClass.Large)
    IN  IF outOfTolerance(globalTotal)
        THEN [cfg |-> ZeroConfig, err |-> "invalid global weights"]
        ELSE IF outOfTolerance(smallTotal)
        THEN [cfg |-> ZeroConfig, err |-> "invalid small weights"]
        ELSE IF outOfTolerance(mediumTotal)
        THEN [cfg |-> ZeroConfig, err |-> "invalid medium weights"]
        ELSE IF outOfTolerance(largeTotal)
        THEN [cfg |-> ZeroConfig, err |-> "invalid large weights"]
        ELSE [cfg |-> cfg, err |-> "nil"]

\* the weights a configuration is made of
GlobalWeights == {Num(0), Num(999), Num(1000), NaN}
ClassWeights == {Num(1000), Num(1001), NaN}
WeightLists ==
    UNION {[1..n -> ClassWeights] : n \in 0..MaxWeights}
Configs ==
    [Global : [Large : GlobalWeights, Medium : GlobalWeights,
               Small : GlobalWeights],
     SizeClass : [Small : WeightLists, Medium : WeightLists,
                  Large : WeightLists]]

\* a call of Normalize on the configuration
NormalizeCall ==
    /\ nres.op = "none"
    /\ LET r == Normalize(ncfg)
       IN  nres' = [op |-> "normalize", cfg |-> r.cfg, err |-> r.err]
    /\ UNCHANGED <<ncfg, panicked, restOfProcessor>>

\* no manager is made yet: the fields have their zero values, and the zero
\* value of m.state is StoppedState
NoMLoop == [pc |-> "off", cats |-> {}]
NoMRes == [op |-> "none", err |-> "nil", n |-> 0]
NoManager ==
    /\ mState = StoppedState
    /\ mCloseCh = FALSE
    /\ mWg = 0
    /\ mWatcher = 0
    /\ mLoop = NoMLoop
    /\ mpc = "idle"
    /\ mres = NoMRes

\* the queue, the hub, the provider and the callers after construction
InitComponents ==
    /\ \E arg \in CapArgs : newDLQOss(arg)
    /\ newEventHubImpl
    /\ NewFileProvider
    /\ pc = [p \in AllProcs |-> "idle"]
    /\ loc = [p \in AllProcs |-> NoLoc]
    /\ res = [p \in AllProcs |-> NoRes]
    /\ budget = -1
    /\ panicked = FALSE
    /\ nPushOk = 0 /\ nPopEv = 0 /\ pending = <<>>

\* locals of a call on the cache, the result of no call
NoCLoc == [idx |-> 0, pos |-> 0, sc |-> 0, ptr |-> NilPtr]
NoCRes == [op |-> "none", sc |-> 0, size |-> 0, ptr |-> NilPtr, ok |-> FALSE]
\* the callers of the cache between calls
CacheIdle ==
    /\ cpc = [p \in AllProcs |-> "idle"]
    /\ cloc = [p \in AllProcs |-> NoCLoc]
    /\ cres = NoCRes
    /\ nCacheOps = 0

\* newSystemCache: the counters of L1 are zero, its slots and those of L2
\* are empty
newSystemCache ==
    /\ l1counters = [idx \in 0..(numSizeClasses - 1) |-> 0]
    /\ l1slots = [idx \in 0..(numSizeClasses - 1) |-> <<>>]
    /\ l2slots = <<>> /\ l2size = 0
    /\ CacheIdle

\* no function was called yet
NoRet == [fn |-> "none"]
NoCall == fnArgs = [n |-> 0] /\ fnRet = NoRet

Init == InitComponents /\ newProcessorImpl /\ NoManager /\ newSystemCache /\ NoCall

InitNormalize ==
    /\ InitComponents /\ capacity = minCapacity
    /\ ncfg \in Configs /\ nres = NoNRes
    /\ NoManager /\ newSystemCache /\ NoCall
NormalizeNext == NormalizeCall
SpecNormalize == InitNormalize /\ [][NormalizeNext]_vars

\* a call returns: the process is idle again and its result is recorded
ReturnCtx(p, op, err, ev, c) ==
    /\ pc' = [pc EXCEPT ![p] = "idle"]
    /\ loc' = [loc EXCEPT ![p] = NoLoc]
    /\ res' = [res EXCEPT ![p] = [op |-> op, err |-> err, ev |-> ev, ctx |-> c]]

Return(p, op, err, ev) == ReturnCtx(p, op, err, ev, loc[p].ctx)

Goto(p, l) == pc' = [pc EXCEPT ![p] = l]

\* an unrecovered run-time panic in process p
Panic(p) ==
    /\ panicked' = TRUE
    /\ pc' = [pc EXCEPT ![p] = "panic"]
    /\ mu' = IF mu = p THEN 0 ELSE mu

At(p, l) == ~panicked /\ pc[p] = l

\* a process begins a call
Begin(p) ==
    /\ At(p, "idle") /\ budget # 0
    /\ budget' = IF budget > 0 THEN budget - 1 ELSE budget

\* the cancellation of the context of the call in progress.  Only the call
\* itself reads its context, in the select of Push and at the head of the
\* loop of RingBuffer.pop, so a cancellation at any earlier moment of the
\* call is the same as one right before the next of these reads.
Cancel(p) ==
    /\ ~panicked /\ pc[p] \in {"push_retry", "rpop_check"} /\ ~loc[p].ctx
    /\ loc' = [loc EXCEPT ![p].ctx = TRUE]
    /\ UNCHANGED <<dlqVars, histVars, pc, res, panicked>>
    /\ UNCHANGED <<budget, restOfDLQ>>

\* ---------------------------------------------------------- DLQOss.Push
\* a select without the case <-d.closeCh
SelectWithoutCloseCh(isClosed, cancelled) ==
    IF cancelled THEN {"ctx"} ELSE {"default"}

\* a select without the case <-ctx.Done()
SelectWithoutCtxDone(isClosed, cancelled) ==
    IF isClosed THEN {"closed"} ELSE {"default"}

\* the select at the head of Push (and of Pop): which of its cases can run
SelectCases(isClosed, cancelled) ==
    IF isClosed \/ cancelled
    THEN (IF isClosed THEN {"closed"} ELSE {}) \cup (IF cancelled THEN {"ctx"} ELSE {})
    ELSE {"default"}

PushEnter(p) ==
    /\ Begin(p) /\ eventID < MaxPush
    /\ \E cancelled \in BOOLEAN : \E c \in SelectCases(closeCh, cancelled) :
        CASE c = "closed" -> ReturnCtx(p, "push", "ErrQueueClosed", NilEv, cancelled)
          [] c = "ctx" -> ReturnCtx(p, "push", "Canceled", NilEv, cancelled)
          [] OTHER -> /\ Goto(p, "push_id")
                      /\ loc' = [loc EXCEPT ![p] = [NoLoc EXCEPT !.ctx = cancelled]]
                      /\ UNCHANGED res
    /\ UNCHANGED <<dlqVars, histVars, panicked>>
    /\ UNCHANGED restOfDLQ

\* event.ID = d.eventID.Add(1)
PushId(p) ==
    /\ At(p, "push_id")
    /\ eventID' = eventID + 1
    /\ loc' = [loc EXCEPT ![p].ev = eventID + 1]
    /\ Goto(p, "push_load")
    /\ UNCHANGED <<closeCh, once, bufNil, mu, popCounter, m, head, tail,
                   capacity, count, buflen, buf, state, histVars, res, panicked>>
    /\ UNCHANGED <<budget, restOfDLQ>>

\* buf := (*RingBuffer)(d.buf.Load()); d.buf is a nil pointer after Close
PushLoad(p) ==
    /\ At(p, "push_load")
    /\ IF bufNil
       THEN Panic(p) /\ UNCHANGED <<closeCh, once, bufNil, eventID, popCounter, m,
                                    head, tail, capacity, count, buflen, buf, state>>
       ELSE Goto(p, "rpush_check") /\ UNCHANGED <<dlqVars, panicked>>
    /\ UNCHANGED <<histVars, loc, res>>
    /\ UNCHANGED <<budget, restOfDLQ>>

\* RingBuffer.push: the state, capacity and count loads
RPushCheck(p) ==
    /\ At(p, "rpush_check")
    /\ IF ~state
       THEN Return(p, "push", "ErrBufClosed", NilEv)
       ELSE IF count >= capacity
            THEN Goto(p, "exp_lock") /\ UNCHANGED <<loc, res>>
            ELSE /\ Goto(p, "rpush_cas")
                 /\ loc' = [loc EXCEPT ![p].capacity = capacity, ![p].cur = count]
                 /\ UNCHANGED res
    /\ UNCHANGED <<dlqVars, histVars, panicked>>
    /\ UNCHANGED <<budget, restOfDLQ>>

\* r.count.CompareAndSwap(currentCount, currentCount+1)
RPushCas(p) ==
    /\ At(p, "rpush_cas")
    /\ IF count = loc[p].cur
       THEN count' = count + 1 /\ Goto(p, "rpush_tail")
       ELSE UNCHANGED count /\ Goto(p, "rpush_check")
    /\ UNCHANGED <<closeCh, once, bufNil, mu, eventID, popCounter, m, head, tail,
                   capacity, buflen, buf, state, histVars, loc, res, panicked>>
    /\ UNCHANGED <<budget, restOfDLQ>>

\* pos = (r.tail.Add(1) - 1) % capacity
RPushTail(p) ==
    /\ At(p, "rpush_tail")
    /\ tail' = tail + 1
    /\ loc' = [loc EXCEPT ![p].pos = tail % loc[p].capacity]
    /\ Goto(p, "rpush_write")
    /\ UNCHANGED <<closeCh, once, bufNil, mu, eventID, popCounter, m, head,
                   capacity, count, buflen, buf, state, histVars, res, panicked>>
    /\ UNCHANGED <<budget, restOfDLQ>>

\* r.buf[pos] = unsafe.Pointer(event)
RPushWrite(p) ==
    /\ At(p, "rpush_write")
    /\ IF loc[p].pos >= buflen
       THEN Panic(p) /\ UNCHANGED buf
       ELSE /\ buf' = SetSlot(buf, loc[p].pos, loc[p].ev)
            /\ Goto(p, "push_store")
            /\ UNCHANGED <<mu, panicked>>
    /\ UNCHANGED <<closeCh, once, bufNil, eventID, popCounter, m, head, tail,
                   capacity, count, buflen, state, histVars, loc, res>>
    /\ UNCHANGED <<budget, restOfDLQ>>

\* d.m.Store(event.ID, pos); return nil
PushStore(p) ==
    /\ At(p, "push_store")
    /\ m' = SetSlot(m, loc[p].ev, loc[p].pos)
    /\ nPushOk' = nPushOk + 1
    /\ pending' = Append(pending, loc[p].ev)
    /\ Return(p, "push", "nil", NilEv)
    /\ UNCHANGED <<closeCh, once, bufNil, mu, eventID, popCounter, head, tail,
                   capacity, count, buflen, buf, state, nPopEv, panicked>>
    /\ UNCHANGED <<budget, restOfDLQ>>

\* the select after an expansion: closed, cancelled, or retry
PushRetry(p) ==
    /\ At(p, "push_retry")
    /\ \E c \in SelectCases(closeCh, loc[p].ctx) :
        CASE c = "closed" -> Return(p, "push", "ErrQueueClosed", NilEv)
          [] c = "ctx" -> Return(p, "push", "Canceled", NilEv)
          [] OTHER -> Goto(p, "push_load") /\ UNCHANGED <<loc, res>>
    /\ UNCHANGED <<dlqVars, histVars, panicked>>
    /\ UNCHANGED <<budget, restOfDLQ>>

\* ------------------------------------------------------ DLQOss.expansion
\* the slice expressions of expansion that are out of range
ExpansionPanics(h, t, n, c, len) ==
    LET newCapacity == Min(maxCapacity, n * growFactor)
        firstSlots == c - 1 - h
    IN  \/ newCapacity < 0
        \/ IF h <= t
           THEN n < 0 \/ n > newCapacity \/ h < 0 \/ h + n > len
           ELSE \/ firstSlots < 0 \/ firstSlots > newCapacity \/ h > len
                \/ /\ firstSlots < n
                   /\ (n > newCapacity \/ t < 0 \/ t > len)

\* adjustMap: every non-nil slot i stores id -> i, in increasing i
AdjustMap(mm, b) ==
    LET ids == {b[i] : i \in DOMAIN b}
        last(id) == CHOOSE i \in DOMAIN b :
                        b[i] = id /\ \A j \in DOMAIN b : b[j] = id => j <= i
    IN  [id \in (DOMAIN mm) \cup ids |-> IF id \in ids THEN last(id) ELSE mm[id]]

\* d.mu.Lock(); buf := (*RingBuffer)(d.buf.Load())
ExpLock(p) ==
    /\ At(p, "exp_lock") /\ mu = 0
    /\ IF bufNil
       THEN Panic(p)
       ELSE mu' = p /\ Goto(p, "exp_check") /\ UNCHANGED panicked
    /\ UNCHANGED <<closeCh, once, bufNil, eventID, popCounter, m, head, tail,
                   capacity, count, buflen, buf, state, histVars, loc, res>>
    /\ UNCHANGED <<budget, restOfDLQ>>

\* the double check: if count < capacity { return }
ExpCheck(p) ==
    /\ At(p, "exp_check")
    /\ IF count < capacity
       THEN mu' = 0 /\ Goto(p, "push_retry") /\ UNCHANGED loc
       ELSE /\ loc' = [loc EXCEPT ![p].capacity = capacity]
            /\ Goto(p, "exp_tail") /\ UNCHANGED mu
    /\ UNCHANGED <<closeCh, once, bufNil, eventID, popCounter, m, head, tail,
                   capacity, count, buflen, buf, state, histVars, res, panicked>>
    /\ UNCHANGED <<budget, restOfDLQ>>

ExpTail(p) ==
    /\ At(p, "exp_tail")
    /\ loc' = [loc EXCEPT ![p].tail = tail]
    /\ Goto(p, "exp_head")
    /\ UNCHANGED <<dlqVars, histVars, res, panicked>>
    /\ UNCHANGED <<budget, restOfDLQ>>

ExpHead(p) ==
    /\ At(p, "exp_head")
    /\ loc' = [loc EXCEPT ![p].head = head]
    /\ Goto(p, "exp_slots")
    /\ UNCHANGED <<dlqVars, histVars, res, panicked>>
    /\ UNCHANGED <<budget, restOfDLQ>>

\* copySlots := buf.count.Load()
ExpSlots(p) ==
    /\ At(p, "exp_slots")
    /\ loc' = [loc EXCEPT ![p].slots = count]
    /\ Goto(p, "exp_copy")
    /\ UNCHANGED <<dlqVars, histVars, res, panicked>>
    /\ UNCHANGED <<budget, restOfDLQ>>

\* newQ is made and filled, and dropped when expansion returns: neither
\* buf.buf nor buf.capacity is assigned.  Then buf.count.Store(copySlots)
ExpCopy(p) ==
    /\ At(p, "exp_copy")
    /\ IF ExpansionPanics(loc[p].head, loc[p].tail, loc[p].slots, capacity, buflen)
       THEN Panic(p) /\ UNCHANGED count
       ELSE /\ count' = loc[p].slots
            /\ Goto(p, "exp_st_head") /\ UNCHANGED <<mu, panicked>>
    /\ UNCHANGED <<closeCh, once, bufNil, eventID, popCounter, m, head, tail,
                   capacity, buflen, buf, state, histVars, loc, res>>
    /\ UNCHANGED <<budget, restOfDLQ>>

\* buf.head.Store(0)
ExpStoreHead(p) ==
    /\ At(p, "exp_st_head")
    /\ head' = 0
    /\ Goto(p, "exp_st_tail")
    /\ UNCHANGED <<closeCh, once, bufNil, mu, eventID, popCounter, m, tail,
                   capacity, count, buflen, buf, state, histVars, loc, res, panicked>>
    /\ UNCHANGED <<budget, restOfDLQ>>

\* buf.tail.Store(copySlots - 1)
ExpStoreTail(p) ==
    /\ At(p, "exp_st_tail")
    /\ tail' = loc[p].slots - 1
    /\ Goto(p, "exp_adjust")
    /\ UNCHANGED <<closeCh, once, bufNil, mu, eventID, popCounter, m, head,
                   capacity, count, buflen, buf, state, histVars, loc, res, panicked>>
    /\ UNCHANGED <<budget, restOfDLQ>>

\* d.buf.Store(buf) of the same ring buffer; d.adjustMap(buf); unlock
ExpAdjust(p) ==
    /\ At(p, "exp_adjust")
    /\ m' = AdjustMap(m, buf)
    /\ mu' = 0
    /\ Goto(p, "push_retry")
    /\ UNCHANGED <<closeCh, once, bufNil, eventID, popCounter, head, tail,
                   capacity, count, buflen, buf, state, histVars, loc, res, panicked>>
    /\ UNCHANGED <<budget, restOfDLQ>>

\* ----------------------------------------------------------- DLQOss.Pop
PopEnter(p) ==
    /\ Begin(p) /\ popCounter < MaxPop
    /\ \E cancelled \in BOOLEAN : \E c \in SelectCases(closeCh, cancelled) :
        CASE c = "closed" -> ReturnCtx(p, "pop", "ErrQueueClosed", NilEv, cancelled)
          [] c = "ctx" -> ReturnCtx(p, "pop", "Canceled", EmptyEv, cancelled)
          [] OTHER -> /\ Goto(p, "pop_counter")
                      /\ loc' = [loc EXCEPT ![p] = [NoLoc EXCEPT !.ctx = cancelled]]
                      /\ UNCHANGED res
    /\ UNCHANGED <<dlqVars, histVars, panicked>>
    /\ UNCHANGED restOfDLQ

\* if d.popCounter.Add(1)%batch == 0
PopCount(p) ==
    /\ At(p, "pop_counter")
    /\ popCounter' = popCounter + 1
    /\ Goto(p, IF (popCounter + 1) % batch = 0 THEN "ss_lock" ELSE "pop_load")
    /\ UNCHANGED <<closeCh, once, bufNil, mu, eventID, m, head, tail, capacity,
                   count, buflen, buf, state, histVars, loc, res, panicked>>
    /\ UNCHANGED <<budget, restOfDLQ>>

\* ---------------------------------------------------- DLQOss.shouldShrink
shouldShrink(n, c) == n < c \div shrinkFactor /\ n > minCapacity

SsLock(p) ==
    /\ At(p, "ss_lock") /\ mu = 0
    /\ IF bufNil
       THEN Panic(p)
       ELSE mu' = p /\ Goto(p, "ss_check") /\ UNCHANGED panicked
    /\ UNCHANGED <<closeCh, once, bufNil, eventID, popCounter, m, head, tail,
                   capacity, count, buflen, buf, state, histVars, loc, res>>
    /\ UNCHANGED <<budget, restOfDLQ>>

SsCheck(p) ==
    /\ At(p, "ss_check")
    /\ mu' = 0
    /\ Goto(p, IF shouldShrink(count, capacity) THEN "shr_lock" ELSE "pop_load")
    /\ UNCHANGED <<closeCh, once, bufNil, eventID, popCounter, m, head, tail,
                   capacity, count, buflen, buf, state, histVars, loc, res, panicked>>
    /\ UNCHANGED <<budget, restOfDLQ>>

\* ----------------------------------------------------------- DLQOss.shrink
ShrinkCapacity(c) == Max(minCapacity, c \div shrinkStep)

\* the slice expressions of shrink that are out of range
ShrinkPanics(h, t, n, c, len) ==
    LET newCapacity == ShrinkCapacity(c)
        freeSlots == c - n
        firstSlots == c - 1 - h
    IN  IF t >= h
        THEN h < 0 \/ t > len
        ELSE \/ h > len
             \/ /\ firstSlots < freeSlots
                /\ (firstSlots < 0 \/ firstSlots > newCapacity \/ t < 0 \/ t > len)

ShrLock(p) ==
    /\ At(p, "shr_lock") /\ mu = 0
    /\ IF bufNil
       THEN Panic(p)
       ELSE mu' = p /\ Goto(p, "shr_tail") /\ UNCHANGED panicked
    /\ UNCHANGED <<closeCh, once, bufNil, eventID, popCounter, m, head, tail,
                   capacity, count, buflen, buf, state, histVars, loc, res>>
    /\ UNCHANGED <<budget, restOfDLQ>>

ShrTail(p) ==
    /\ At(p, "shr_tail")
    /\ loc' = [loc EXCEPT ![p].tail = tail]
    /\ Goto(p, "shr_head")
    /\ UNCHANGED <<dlqVars, histVars, res, panicked>>
    /\ UNCHANGED <<budget, restOfDLQ>>

ShrHead(p) ==
    /\ At(p, "shr_head")
    /\ loc' = [loc EXCEPT ![p].head = head, ![p].capacity = capacity]
    /\ Goto(p, "shr_copy")
    /\ UNCHANGED <<dlqVars, histVars, res, panicked>>
    /\ UNCHANGED <<budget, restOfDLQ>>

\* newQ is made and filled, and dropped when shrink returns.  Then
\* buf.head.Store(0)
ShrCopy(p) ==
    /\ At(p, "shr_copy")
    /\ IF ShrinkPanics(loc[p].head, loc[p].tail, count, loc[p].capacity, buflen)
       THEN Panic(p) /\ UNCHANGED head
       ELSE /\ head' = 0
            /\ Goto(p, "shr_st_tail") /\ UNCHANGED <<mu, panicked>>
    /\ UNCHANGED <<closeCh, once, bufNil, eventID, popCounter, m, tail,
                   capacity, count, buflen, buf, state, histVars, loc, res>>
    /\ UNCHANGED <<budget, restOfDLQ>>

\* buf.tail.Store(int32(len(newQ) - 1))
ShrStoreTail(p) ==
    /\ At(p, "shr_st_tail")
    /\ tail' = ShrinkCapacity(loc[p].capacity) - 1
    /\ Goto(p, "shr_adjust")
    /\ UNCHANGED <<closeCh, once, bufNil, mu, eventID, popCounter, m, head,
                   capacity, count, buflen, buf, state, histVars, loc, res, panicked>>
    /\ UNCHANGED <<budget, restOfDLQ>>

\* d.buf.Store(buf) of the same ring buffer; d.adjustMap(buf); unlock
ShrAdjust(p) ==
    /\ At(p, "shr_adjust")
    /\ m' = AdjustMap(m, buf)
    /\ mu' = 0
    /\ Goto(p, "pop_load")
    /\ UNCHANGED <<closeCh, once, bufNil, eventID, popCounter, head, tail,
                   capacity, count, buflen, buf, state, histVars, loc, res, panicked>>
    /\ UNCHANGED <<budget, restOfDLQ>>

\* buf := (*RingBuffer)(d.buf.Load()) in Pop
PopLoad(p) ==
    /\ At(p, "pop_load")
    /\ IF bufNil
       THEN Panic(p) /\ UNCHANGED <<closeCh, once, bufNil, eventID, popCounter, m,
                                    head, tail, capacity, count, buflen, buf, state>>
       ELSE Goto(p, "rpop_check") /\ UNCHANGED <<dlqVars, panicked>>
    /\ UNCHANGED <<histVars, loc, res>>
    /\ UNCHANGED <<budget, restOfDLQ>>

\* -------------------------------------------------------- RingBuffer.pop
\* the state load, the context check and if r.count.Load() <= 0
RPopCheck(p) ==
    /\ At(p, "rpop_check")
    /\ IF ~state
       THEN Return(p, "pop", "ErrQueueClosed", NilEv)
       ELSE IF loc[p].ctx
            THEN Return(p, "pop", "Canceled", NilEv)
            ELSE IF count <= 0
                 THEN Return(p, "pop", "nil", EmptyEv)
                 ELSE Goto(p, "rpop_load") /\ UNCHANGED <<loc, res>>
    /\ UNCHANGED <<dlqVars, histVars, panicked>>
    /\ UNCHANGED <<budget, restOfDLQ>>

\* currentCount := r.count.Load()
RPopLoad(p) ==
    /\ At(p, "rpop_load")
    /\ loc' = [loc EXCEPT ![p].cur = count]
    /\ Goto(p, "rpop_cas")
    /\ UNCHANGED <<dlqVars, histVars, res, panicked>>
    /\ UNCHANGED <<budget, restOfDLQ>>

\* r.count.CompareAndSwap(currentCount, currentCount-1)
RPopCas(p) ==
    /\ At(p, "rpop_cas")
    /\ IF count = loc[p].cur
       THEN count' = count - 1 /\ Goto(p, "rpop_head")
       ELSE UNCHANGED count /\ Goto(p, "rpop_check")
    /\ UNCHANGED <<closeCh, once, bufNil, mu, eventID, popCounter, m, head, tail,
                   capacity, buflen, buf, state, histVars, loc, res, panicked>>
    /\ UNCHANGED <<budget, restOfDLQ>>

\* head := r.head.Add(1) - 1; pos := head % r.capacity.Load()
RPopHead(p) ==
    /\ At(p, "rpop_head")
    /\ head' = head + 1
    /\ loc' = [loc EXCEPT ![p].pos = head % capacity]
    /\ Goto(p, "rpop_read")
    /\ UNCHANGED <<closeCh, once, bufNil, mu, eventID, popCounter, m, tail,
                   capacity, count, buflen, buf, state, histVars, res, panicked>>
    /\ UNCHANGED <<budget, restOfDLQ>>

\* event := (*DLQEvent)(r.buf[pos])
RPopRead(p) ==
    /\ At(p, "rpop_read")
    /\ IF loc[p].pos >= buflen
       THEN Panic(p) /\ UNCHANGED loc
       ELSE /\ loc' = [loc EXCEPT ![p].ev = Slot(buf, loc[p].pos)]
            /\ Goto(p, "rpop_clear") /\ UNCHANGED <<mu, panicked>>
    /\ UNCHANGED <<closeCh, once, bufNil, eventID, popCounter, m, head, tail,
                   capacity, count, buflen, buf, state, histVars, res>>
    /\ UNCHANGED <<budget, restOfDLQ>>

\* r.buf[pos] = nil
RPopClear(p) ==
    /\ At(p, "rpop_clear")
    /\ buf' = ClearSlot(buf, loc[p].pos)
    /\ Goto(p, "pop_delete")
    /\ UNCHANGED <<closeCh, once, bufNil, mu, eventID, popCounter, m, head, tail,
                   capacity, count, buflen, state, histVars, loc, res, panicked>>
    /\ UNCHANGED <<budget, restOfDLQ>>

\* back in Pop: if event != nil { d.m.Delete(event.ID) }; return event, nil
PopDelete(p) ==
    /\ At(p, "pop_delete")
    /\ LET e == loc[p].ev IN
        /\ m' = IF e # NilEv THEN ClearSlot(m, e) ELSE m
        /\ nPopEv' = IF e # NilEv THEN nPopEv + 1 ELSE nPopEv
        /\ pending' = SelectSeq(pending, LAMBDA x : x # e)
        /\ Return(p, "pop", "nil", e)
    /\ UNCHANGED <<closeCh, once, bufNil, mu, eventID, popCounter, head, tail,
                   capacity, count, buflen, buf, state, nPushOk, panicked>>
    /\ UNCHANGED <<budget, restOfDLQ>>

\* -------------------------------------------------------- DLQOss.GetSize
GetSize(p) ==
    /\ Begin(p) /\ mu = 0
    /\ IF bufNil
       THEN Panic(p) /\ UNCHANGED <<loc, res>>
       ELSE Return(p, "size", "nil", count) /\ UNCHANGED <<mu, panicked>>
    /\ UNCHANGED <<closeCh, once, bufNil, eventID, popCounter, m, head, tail,
                   capacity, count, buflen, buf, state, histVars>>
    /\ UNCHANGED restOfDLQ

\* ---------------------------------------------------------- DLQOss.Close
\* d.once.Do: a later call returns at once, a concurrent one waits for the
\* first to finish; the first closes d.closeCh
CloseEnter(p) ==
    /\ Begin(p) /\ once # "running"
    /\ IF once = "done"
       THEN Return(p, "close", "nil", NilEv) /\ UNCHANGED <<closeCh, once>>
       ELSE /\ once' = "running" /\ closeCh' = TRUE
            /\ Goto(p, "close_lock") /\ UNCHANGED <<loc, res>>
    /\ UNCHANGED <<bufNil, mu, eventID, popCounter, m, head, tail, capacity,
                   count, buflen, buf, state, histVars, panicked>>
    /\ UNCHANGED restOfDLQ

CloseLock(p) ==
    /\ At(p, "close_lock") /\ mu = 0
    /\ mu' = p
    /\ Goto(p, "close_body")
    /\ UNCHANGED <<closeCh, once, bufNil, eventID, popCounter, m, head, tail,
                   capacity, count, buflen, buf, state, histVars, loc, res, panicked>>
    /\ UNCHANGED <<budget, restOfDLQ>>

\* RingBuffer.close: CompareAndSwap(false, true) on the state
RingClose(st) == IF st = FALSE THEN TRUE ELSE st

\* buf.close(); the slots are cleared if count > 0; d.buf = nil; unlock
CloseBody(p) ==
    /\ At(p, "close_body")
    /\ state' = RingClose(state)
    /\ buf' = IF count > 0 THEN NoSlots ELSE buf
    /\ bufNil' = TRUE
    /\ mu' = 0
    /\ once' = "done"
    /\ Return(p, "close", "nil", NilEv)
    /\ UNCHANGED <<closeCh, eventID, popCounter, m, head, tail, capacity, count,
                   buflen, histVars, panicked>>
    /\ UNCHANGED <<budget, restOfDLQ>>

DLQStep(p) ==
    \/ Cancel(p)
    \/ PushEnter(p) \/ PushId(p) \/ PushLoad(p)
    \/ RPushCheck(p) \/ RPushCas(p) \/ RPushTail(p) \/ RPushWrite(p)
    \/ PushStore(p) \/ PushRetry(p)
    \/ ExpLock(p) \/ ExpCheck(p) \/ ExpTail(p) \/ ExpHead(p) \/ ExpSlots(p)
    \/ ExpCopy(p) \/ ExpStoreHead(p) \/ ExpStoreTail(p) \/ ExpAdjust(p)
    \/ PopEnter(p) \/ PopCount(p)
    \/ SsLock(p) \/ SsCheck(p)
    \/ ShrLock(p) \/ ShrTail(p) \/ ShrHead(p) \/ ShrCopy(p)
    \/ ShrStoreTail(p) \/ ShrAdjust(p)
    \/ PopLoad(p) \/ RPopCheck(p) \/ RPopLoad(p) \/ RPopCas(p) \/ RPopHead(p)
    \/ RPopRead(p) \/ RPopClear(p) \/ PopDelete(p)
    \/ GetSize(p)
    \/ CloseEnter(p) \/ CloseLock(p) \/ CloseBody(p)

\* the queue alone, its calls made one after the other by one goroutine
Next == \E p \in SeqProcs : DLQStep(p)

Spec == Init /\ [][Next]_vars

\* ------------------------------------------------- concurrent callers
\* The queue as one goroutine leaves it after newDLQOss(arg), npop calls of
\* Pop on the empty queue and then npush calls of Push (npush at most the
\* capacity), each with a context that is not cancelled: the ids 1..npush
\* lie in the slots 0..npush-1.
Prefilled(arg, npop, npush) ==
    LET c == IF arg < minCapacity THEN minCapacity ELSE arg IN
    /\ closeCh = FALSE /\ once = "new" /\ bufNil = FALSE /\ mu = 0
    /\ eventID = npush /\ popCounter = npop
    /\ m = [id \in 1..npush |-> id - 1]
    /\ head = 0 /\ tail = npush /\ capacity = c /\ count = npush
    /\ buflen = c /\ buf = [i \in 0..(npush - 1) |-> i + 1] /\ state = TRUE
    /\ nPushOk = npush /\ nPopEv = 0 /\ pending = [i \in 1..npush |-> i]
    /\ res = [p \in AllProcs |->
                IF p # 1 \/ npop + npush = 0 THEN NoRes
                ELSE IF npush > 0
                     THEN [op |-> "push", err |-> "nil", ev |-> NilEv, ctx |-> FALSE]
                     ELSE [op |-> "pop", err |-> "nil", ev |-> EmptyEv, ctx |-> FALSE]]

\* the states the concurrent callers start from: a new queue, a queue one
\* push short of full, a queue whose next Pop is the tenth and finds
\* count > 32 and count < capacity / 4, and a new queue made with a
\* capacity argument above maxCapacity
ConcStarts == {<<0, 0, 0>>, <<0, 0, minCapacity - 1>>, <<136, batch - 1, minCapacity + 1>>,
               <<maxCapacity + 1, 0, 0>>}

\* calls the concurrent callers begin, all together
MaxConcCalls == 3

InitConc ==
    /\ \E f \in ConcStarts : Prefilled(f[1], f[2], f[3])
    /\ newEventHubImpl
    /\ NewFileProvider
    /\ pc = [p \in AllProcs |-> "idle"]
    /\ loc = [p \in AllProcs |-> NoLoc]
    /\ budget = MaxConcCalls
    /\ panicked = FALSE
    /\ newProcessorImpl /\ NoManager /\ newSystemCache /\ NoCall

NextConc == \E p \in AllProcs : DLQStep(p)

SpecConc == InitConc /\ [][NextConc]_vars

\* ============================================================ EventHub
\* the listeners in the slice d.listeners
Listeners == SubSeq(larr, 1, listeners)

\* the backing array a Dispatch ranges over
SnapArr(snap) == IF snap.shared THEN larr ELSE snap.own

HAt(p, l) == ~panicked /\ hpc[p] = l
HGoto(p, l) == hpc' = [hpc EXCEPT ![p] = l]
HReturn(p) ==
    /\ hpc' = [hpc EXCEPT ![p] = "idle"]
    /\ hloc' = [hloc EXCEPT ![p] = NoHLoc]
HPanic(p) ==
    /\ panicked' = TRUE
    /\ hpc' = [hpc EXCEPT ![p] = "panic"]
    /\ hmu' = IF hmu = p THEN 0 ELSE hmu

dlqAll == restOfHub

\* append(s, x) of Go: in place while the capacity lasts, else into a new
\* array of twice the capacity (1 for an empty one)
GrowCap(c) == IF c = 0 THEN 1 ELSE 2 * c

\* ch := make(chan Event, size); d.listeners = append(d.listeners, Listener{...})
Register(p, tag, sc, size) ==
    /\ HAt(p, "idle") /\ hmu = 0 /\ Len(chans) < MaxRegister
    /\ LET ch == Len(chans) + 1
           l == [tag |-> tag, category |-> sc, ch |-> ch]
       IN  /\ chans' = Append(chans, [cap |-> size, q |-> <<>>, closed |-> FALSE,
                                      closes |-> 0])
           /\ listeners' = listeners + 1
           /\ IF listeners < Len(larr)
              THEN /\ larr' = [larr EXCEPT ![listeners + 1] = l]
                   /\ UNCHANGED hloc
              ELSE /\ larr' = [k \in 1..GrowCap(Len(larr)) |->
                                IF k <= listeners THEN larr[k] ELSE
                                IF k = listeners + 1 THEN l ELSE
                                [tag |-> "", category |-> 0, ch |-> 0]]
                   /\ hloc' = [q \in AllProcs |->
                                IF hpc[q] = "dispatch" /\ hloc[q].snap.shared
                                THEN [hloc[q] EXCEPT !.snap.shared = FALSE,
                                                     !.snap.own = larr]
                                ELSE hloc[q]]
    /\ UNCHANGED <<hCloseCh, hOnce, hmu, hpc, nDispatch, panicked, dlqAll>>

\* the index of the first listener with the tag, 0 if there is none
FirstWithTag(tag) ==
    IF \E k \in 1..listeners : larr[k].tag = tag
    THEN CHOOSE k \in 1..listeners :
            larr[k].tag = tag /\ \A j \in 1..(k - 1) : larr[j].tag # tag
    ELSE 0

\* close(ch): a second close panics
CloseChan(cs, ch) == [cs EXCEPT ![ch].closed = TRUE, ![ch].closes = @ + 1]

\* Unregister up to close(l.ch): the lock, the search, the close
UnregisterEnter(p, tag) ==
    /\ HAt(p, "idle") /\ hmu = 0
    /\ LET k == FirstWithTag(tag) IN
        IF k = 0
        THEN UNCHANGED <<hpc, hloc, hmu, chans, panicked>>
        ELSE /\ chans' = CloseChan(chans, larr[k].ch)
             /\ IF chans[larr[k].ch].closed
                THEN HPanic(p) /\ UNCHANGED hloc
                ELSE /\ hmu' = p /\ HGoto(p, "unreg_shift")
                     /\ hloc' = [hloc EXCEPT ![p] = [NoHLoc EXCEPT !.tag = tag, !.i = k]]
                     /\ UNCHANGED panicked
    /\ UNCHANGED <<hCloseCh, hOnce, listeners, larr, nDispatch, dlqAll>>

\* d.listeners = append(d.listeners[:i], d.listeners[i+1:]...): the tail of
\* the slice moves down one place in the same array; unlock
UnregisterShift(p) ==
    /\ HAt(p, "unreg_shift")
    /\ LET k == hloc[p].i IN
        /\ larr' = [j \in 1..Len(larr) |->
                        IF j >= k /\ j < listeners THEN larr[j + 1] ELSE larr[j]]
        /\ listeners' = listeners - 1
    /\ hmu' = 0
    /\ hpc' = [hpc EXCEPT ![p] = "idle"]
    /\ hloc' = [hloc EXCEPT ![p] = NoHLoc]
    /\ UNCHANGED <<hCloseCh, hOnce, chans, nDispatch, panicked, dlqAll>>

\* Dispatch: the read lock, listeners := d.listeners, the read unlock
dispatchBegin(p, cat) ==
    /\ HAt(p, "idle") /\ hmu = 0
    /\ nDispatch' = nDispatch + 1
    /\ hloc' = [hloc EXCEPT ![p] = [NoHLoc EXCEPT
                    !.ev = [category |-> cat, id |-> nDispatch + 1],
                    !.snap = [shared |-> TRUE, own |-> <<>>, len |-> listeners],
                    !.i = 1]]
    /\ HGoto(p, "dispatch")
    /\ UNCHANGED <<hCloseCh, hOnce, hmu, listeners, larr, chans, panicked>>

\* a call of Dispatch by a caller of the hub
DispatchEnter(p, cat) ==
    /\ nDispatch < MaxDispatch
    /\ dispatchBegin(p, cat)
    /\ UNCHANGED dlqAll

\* a filter without the AllSizeCategory alternative
MatchesOwnCategory(l, ev) == l.category = ev.category

\* a filter that lets every event through
MatchesAlways(l, ev) == TRUE

\* listener.category == ev.category || listener.category == common.AllSizeCategory
Matches(l, ev) == l.category = ev.category \/ l.category = AllSizeCategory

\* a select without the time.After case: it blocks while no other case can
\* run
SelectWithoutTimeout(c, closeSignal, receiverWaits) ==
    (IF c.closed THEN {"panic"}
     ELSE IF Len(c.q) < c.cap \/ (c.cap = 0 /\ receiverWaits) THEN {"sent"} ELSE {})
    \cup (IF closeSignal THEN {"closed"} ELSE {})

\* the cases of the select of Dispatch that can run at once: the send (on
\* a closed channel it panics; a channel without buffer takes it when a
\* receiver waits), the close signal; the timer case runs when no other
\* case could for a second
SelectOutcomes(c, closeSignal, receiverWaits) ==
    LET send == IF c.closed THEN {"panic"}
                ELSE IF Len(c.q) < c.cap \/ (c.cap = 0 /\ receiverWaits)
                     THEN {"sent"} ELSE {}
        stop == IF closeSignal THEN {"closed"} ELSE {}
    IN  IF send \cup stop = {} THEN {"timeout"} ELSE send \cup stop

\* a channel that hands out the newest event first
SendChanFront(cs, ch, ev) ==
    [cs EXCEPT ![ch].q = IF cs[ch].cap = 0 THEN @ ELSE <<ev>> \o @]

\* the event goes into the buffer of the channel, behind the events that
\* wait there, or straight to the receiver of a channel without buffer
SendChan(cs, ch, ev) ==
    [cs EXCEPT ![ch].q = IF cs[ch].cap = 0 THEN @ ELSE Append(@, ev)]

\* one round of the range loop of Dispatch; after any case of the select
\* the loop goes on with the next listener
DispatchStep(p) ==
    /\ HAt(p, "dispatch")
    /\ LET k == hloc[p].i
           snap == hloc[p].snap
           ev == hloc[p].ev
       IN  IF k > snap.len
           THEN HReturn(p) /\ UNCHANGED <<chans, hmu, panicked>>
           ELSE LET l == SnapArr(snap)[k] IN
                IF ~Matches(l, ev)
                THEN /\ hloc' = [hloc EXCEPT ![p].i = k + 1, ![p].last = "skip"]
                     /\ UNCHANGED <<hpc, chans, hmu, panicked>>
                ELSE \E rw \in BOOLEAN :
                     \E o \in SelectOutcomes(chans[l.ch], hCloseCh, rw) :
                        IF o = "panic"
                        THEN HPanic(p) /\ UNCHANGED <<hloc, chans>>
                        ELSE /\ hloc' = [hloc EXCEPT ![p].i = k + 1, ![p].last = o]
                             /\ chans' = IF o = "sent" THEN SendChan(chans, l.ch, ev)
                                         ELSE chans
                             /\ UNCHANGED <<hpc, hmu, panicked>>
    /\ UNCHANGED <<hCloseCh, hOnce, listeners, larr, nDispatch, dlqAll>>

\* the consumer of a channel takes the next buffered event
Receive(ch) ==
    /\ ~panicked /\ ch \in 1..Len(chans) /\ chans[ch].q # <<>>
    /\ chans' = [chans EXCEPT ![ch].q = Tail(@)]
    /\ UNCHANGED <<hCloseCh, hOnce, hmu, listeners, larr, hpc, hloc, nDispatch,
                   panicked, dlqAll>>

\* Close: d.once.Do, the lock, close(d.closeCh)
HubCloseEnter(p) ==
    /\ HAt(p, "idle") /\ hOnce # "running"
    /\ IF hOnce = "done"
       THEN UNCHANGED <<hCloseCh, hOnce, hmu, hpc, hloc>>
       ELSE /\ hmu = 0
            /\ hOnce' = "running" /\ hmu' = p /\ hCloseCh' = TRUE
            /\ hloc' = [hloc EXCEPT ![p] = [NoHLoc EXCEPT !.i = 1]]
            /\ HGoto(p, "hub_close")
    /\ UNCHANGED <<listeners, larr, chans, nDispatch, panicked, dlqAll>>

\* for _, listener := range d.listeners { close(listener.ch) }; unlock
HubCloseStep(p) ==
    /\ HAt(p, "hub_close")
    /\ LET k == hloc[p].i IN
        IF k > listeners
        THEN /\ hmu' = 0 /\ hOnce' = "done"
             /\ hpc' = [hpc EXCEPT ![p] = "idle"]
             /\ hloc' = [hloc EXCEPT ![p] = NoHLoc]
             /\ UNCHANGED <<chans, panicked>>
        ELSE /\ chans' = CloseChan(chans, larr[k].ch)
             /\ IF chans[larr[k].ch].closed
                THEN HPanic(p) /\ UNCHANGED <<hloc, hOnce>>
                ELSE /\ hloc' = [hloc EXCEPT ![p].i = k + 1]
                     /\ UNCHANGED <<hpc, hmu, hOnce, panicked>>
    /\ UNCHANGED <<hCloseCh, listeners, larr, nDispatch, dlqAll>>

HubStep(p) ==
    \/ \E tag \in Tags, sc \in ListenerCats, size \in BufferSizes : Register(p, tag, sc, size)
    \/ \E tag \in Tags : UnregisterEnter(p, tag)
    \/ UnregisterShift(p)
    \/ \E cat \in EventCats : DispatchEnter(p, cat)
    \/ DispatchStep(p)
    \/ HubCloseEnter(p)
    \/ HubCloseStep(p)

HubNext ==
    \/ \E p \in SeqProcs : HubStep(p)
    \/ \E ch \in 1..MaxRegister : Receive(ch)

\* the hub alone, its calls made one after the other
InitHub == Init /\ capacity = minCapacity
SpecHub == InitHub /\ [][HubNext]_vars

\* the same, where a goroutine inside Dispatch is scheduled again and again
SpecHubFair == SpecHub /\ \A p \in SeqProcs : WF_vars(DispatchStep(p))

\* the hub with one subscriber tag and channels that hold two events, so
\* that the events of successive Dispatch calls queue up in one channel
OrderTag == "a"
OrderBufferSizes == {0, 2}

HubOrderStep(p) ==
    \/ \E sc \in ListenerCats, size \in OrderBufferSizes : Register(p, OrderTag, sc, size)
    \/ UnregisterEnter(p, OrderTag)
    \/ UnregisterShift(p)
    \/ \E cat \in EventCats : DispatchEnter(p, cat)
    \/ DispatchStep(p)
    \/ HubCloseEnter(p)
    \/ HubCloseStep(p)

HubOrderNext ==
    \/ \E p \in SeqProcs : HubOrderStep(p)
    \/ \E ch \in 1..MaxRegister : Receive(ch)

SpecHubOrder == InitHub /\ [][HubOrderNext]_vars

\* ------------------------------------------------------------ FileProvider
\* The callers of Watch and Close are the processes p, the watchLoop
\* goroutines are numbered in the order Watch started them, a timer is a
\* record [kind, st, next, read, sent]: kind "plain" (time.NewTimer) or
\* "func" (time.AfterFunc); st "armed", "stopped" (Stop returned true),
\* "fired" (expired: the value is in C, or the function was started),
\* "done"; next tells whether the next call of scheduleReload came "before"
\* or "after" the timer expired ("none" while there was no such call); read
\* is what the file held when the function ran; sent is 1 when it sent.
\* The consumer of the output channel is left out: it only makes room in a
\* buffer of outputCap places.  The errors of fsnotify are left out, but
\* for watcher.Add on a closed watcher.
PAt(p, l) == ~panicked /\ ppc[p] = l
PReturn(p, op, err, ch) ==
    /\ ppc' = [ppc EXCEPT ![p] = "idle"]
    /\ ploc' = [ploc EXCEPT ![p] = NoFile]
    /\ pres' = [op |-> op, err |-> err, ch |-> ch]
PPanic(p) ==
    /\ panicked' = TRUE
    /\ ppc' = [ppc EXCEPT ![p] = "panic"]

\* the file changes, and the watcher, when open, reports it; "other" is a
\* change of another file of the directory
FileChange(op, c) ==
    /\ ~panicked /\ nFileEvents < MaxFileEvents
    /\ nFileEvents' = nFileEvents + 1
    /\ CASE op = "Write" -> file # NoFile /\ file' = c
         [] op = "Create" -> file = NoFile /\ file' = c
         [] op = "Remove" -> file # NoFile /\ file' = NoFile
         [] OTHER -> UNCHANGED file
    /\ fEvents' = IF fWatcher = "open" THEN Append(fEvents, op) ELSE fEvents
    /\ UNCHANGED <<fState, fCh, fChans, fCloseCh, fWatcher, fTimer, fTimers,
                   fPending, fLock, fWg, loops, nLoops, ppc, ploc, pres, panicked>>
    /\ UNCHANGED restOfProvider

\* reloadFile: the decoded content of the file, or an error
reloadFile(content) ==
    IF content = NoFile THEN [err |-> "read", cfg |-> NoFile]
    ELSE [err |-> "nil", cfg |-> content]

\* Watch: the state moves from StoppedState to RunningState, or the call
\* fails.  A call of Watch overlaps no other call.
FPWatchEnter(p) ==
    /\ PAt(p, "idle") /\ \A q \in AllProcs : ppc[q] = "idle"
    /\ nLoops < MaxWatch
    /\ IF fState # StoppedState
       THEN PReturn(p, "watch", "provider is running", 0) /\ UNCHANGED fState
       ELSE /\ fState' = RunningState
            /\ ppc' = [ppc EXCEPT ![p] = "watch_reload"]
            /\ UNCHANGED <<ploc, pres>>
    /\ UNCHANGED <<fCh, fChans, fCloseCh, fWatcher, fEvents, fTimer, fTimers,
                   fPending, fLock, fWg, file, loops, nLoops, nFileEvents, panicked>>
    /\ UNCHANGED restOfProvider

\* initialCfg, err := f.reloadFile(false)
FPWatchReload(p) ==
    /\ PAt(p, "watch_reload")
    /\ LET r == reloadFile(file) IN
        IF r.err # "nil"
        THEN PReturn(p, "watch", r.err, 0)
        ELSE /\ ppc' = [ppc EXCEPT ![p] = "watch_start"]
             /\ ploc' = [ploc EXCEPT ![p] = r.cfg]
             /\ UNCHANGED pres
    /\ UNCHANGED <<fState, fCh, fChans, fCloseCh, fWatcher, fEvents, fTimer, fTimers,
                   fPending, fLock, fWg, file, loops, nLoops, nFileEvents, panicked>>
    /\ UNCHANGED restOfProvider

\* a Watch that does not put the initial configuration into the channel
WatchChannelEmpty(cfg) == [q |-> <<>>, closed |-> FALSE]

\* f.ch = make(chan common.Config, 100); f.ch <- initialCfg
WatchChannel(cfg) == [q |-> <<[cfg |-> cfg, from |-> 0]>>, closed |-> FALSE]

\* the channel with the initial configuration, the watcher on the
\* directory, f.wg.Add(1), go f.watchLoop(), return f.ch
FPWatchStart(p) ==
    /\ PAt(p, "watch_start")
    /\ fChans' = Append(fChans, WatchChannel(ploc[p]))
    /\ fCh' = Len(fChans) + 1
    /\ fWatcher' = "open" /\ fEvents' = <<>>
    /\ fWg' = fWg + 1
    /\ nLoops' = nLoops + 1
    /\ loops' = [loops EXCEPT ![nLoops + 1] = [pc |-> "start", i |-> 0]]
    /\ PReturn(p, "watch", "nil", Len(fChans) + 1)
    /\ UNCHANGED <<fState, fCloseCh, fTimer, fTimers, fPending, fLock, file,
                   nFileEvents, panicked>>
    /\ UNCHANGED restOfProvider

\* a Stop that leaves the timer armed
StopLeavesArmed(ts, t) == ts

\* t.Stop(): true, and the timer will not expire, if it was armed; after a
\* false the value of a plain timer is drained from C
StopTimer(ts, t) ==
    IF t = 0 THEN ts
    ELSE IF ts[t].st = "armed" THEN [ts EXCEPT ![t].st = "stopped"]
    ELSE IF ts[t].kind = "plain" /\ ts[t].st = "fired" THEN [ts EXCEPT ![t].st = "done"]
    ELSE ts

NewTimer(kind) ==
    [kind |-> kind, st |-> "armed", next |-> "none", read |-> NoFile, sent |-> 0]

\* scheduleReload is called again: had the timer in f.debounceTimer expired?
MarkNext(ts, t) ==
    IF t = 0 \/ ts[t].next # "none" THEN ts
    ELSE [ts EXCEPT ![t].next = IF ts[t].st = "armed" THEN "before" ELSE "after"]

LAt(k, l) == ~panicked /\ loops[k].pc = l
LGoto(k, l) == loops' = [loops EXCEPT ![k].pc = l]

\* watchLoop: if f.debounceTimer == nil { f.debounceTimer = time.NewTimer(...) }
watchLoopStart(k) ==
    /\ LAt(k, "start")
    /\ IF fTimer = 0
       THEN /\ fTimers' = Append(fTimers, NewTimer("plain"))
            /\ fTimer' = Len(fTimers) + 1
       ELSE UNCHANGED <<fTimer, fTimers>>
    /\ LGoto(k, "select")
    /\ UNCHANGED <<fState, fCh, fChans, fCloseCh, fWatcher, fEvents, fPending, fLock,
                   fWg, file, nLoops, ppc, ploc, pres, nFileEvents, panicked>>
    /\ UNCHANGED restOfProvider

\* case e, ok := <-f.watcher.Events, with handleEvent up to the call it makes
watchLoopEvent(k) ==
    /\ LAt(k, "select") /\ fWatcher = "open" /\ fEvents # <<>>
    /\ fEvents' = Tail(fEvents)
    /\ LET op == Head(fEvents) IN
        CASE op \in {"Write", "Create"} -> LGoto(k, "schedule")
          [] op = "Remove" -> loops' = [loops EXCEPT ![k] = [pc |-> "removal", i |-> 0]]
          [] OTHER -> UNCHANGED loops
    /\ UNCHANGED <<fState, fCh, fChans, fCloseCh, fWatcher, fTimer, fTimers, fPending,
                   fLock, fWg, file, nLoops, ppc, ploc, pres, nFileEvents, panicked>>
    /\ UNCHANGED restOfProvider

\* scheduleReload, under f.debounceLock: stop the timer, return if the
\* provider is stopped, else arm a new timer
scheduleReload(k) ==
    /\ LAt(k, "schedule") /\ ~fLock
    /\ IF fState = StoppedState
       THEN /\ fTimers' = StopTimer(MarkNext(fTimers, fTimer), fTimer)
            /\ UNCHANGED <<fTimer, fPending>>
       ELSE /\ fTimers' = Append(StopTimer(MarkNext(fTimers, fTimer), fTimer),
                                 NewTimer("func"))
            /\ fTimer' = Len(fTimers) + 1
            /\ fPending' = TRUE
    /\ LGoto(k, "select")
    /\ UNCHANGED <<fState, fCh, fChans, fCloseCh, fWatcher, fEvents, fLock, fWg, file,
                   nLoops, ppc, ploc, pres, nFileEvents, panicked>>
    /\ UNCHANGED restOfProvider

\* an os.Stat that finds the file whether it is there or not
StatAlwaysFinds(content) == TRUE

\* _, err := os.Stat(f.filepath); err == nil
StatFinds(content) == content # NoFile

\* one round of the loop of handleFileRemoval: the sleep, os.Stat, and
\* f.watcher.Add when the file is back
handleFileRemoval(k) ==
    /\ LAt(k, "removal")
    /\ IF loops[k].i >= maxAttempts
       THEN loops' = [loops EXCEPT ![k] = [pc |-> "select", i |-> 0]]
       ELSE IF StatFinds(file) /\ fWatcher = "open"
            THEN loops' = [loops EXCEPT ![k] = [pc |-> "schedule", i |-> 0]]
            ELSE loops' = [loops EXCEPT ![k].i = @ + 1]
    /\ UNCHANGED <<fState, fCh, fChans, fCloseCh, fWatcher, fEvents, fTimer, fTimers,
                   fPending, fLock, fWg, file, nLoops, ppc, ploc, pres, nFileEvents,
                   panicked>>
    /\ UNCHANGED restOfProvider

\* case <-f.closeCh, or a channel of the watcher is closed: return; the
\* deferred function runs f.wg.Done() and f.watcher.Close()
watchLoopReturn(k) ==
    /\ LAt(k, "select") /\ (fCloseCh \/ fWatcher = "closed")
    /\ fWg' = fWg - 1
    /\ fWatcher' = "closed" /\ fEvents' = <<>>
    /\ LGoto(k, "defer_lock")
    /\ UNCHANGED <<fState, fCh, fChans, fCloseCh, fTimer, fTimers, fPending, fLock,
                   file, nLoops, ppc, ploc, pres, nFileEvents, panicked>>
    /\ UNCHANGED restOfProvider

\* the deferred function, under f.debounceLock: stop the timer
watchLoopDefer(k) ==
    /\ LAt(k, "defer_lock") /\ ~fLock
    /\ fTimers' = StopTimer(fTimers, fTimer)
    /\ LGoto(k, "done")
    /\ UNCHANGED <<fState, fCh, fChans, fCloseCh, fWatcher, fEvents, fTimer, fPending,
                   fLock, fWg, file, nLoops, ppc, ploc, pres, nFileEvents, panicked>>
    /\ UNCHANGED restOfProvider

\* the debounce period of an armed timer is over
TimerExpire(t) ==
    /\ ~panicked /\ t \in 1..Len(fTimers) /\ fTimers[t].st = "armed"
    /\ fTimers' = [fTimers EXCEPT ![t].st = "fired"]
    /\ UNCHANGED <<fState, fCh, fChans, fCloseCh, fWatcher, fEvents, fTimer, fPending,
                   fLock, fWg, file, loops, nLoops, ppc, ploc, pres, nFileEvents,
                   panicked>>
    /\ UNCHANGED restOfProvider

\* a channel that always takes one more configuration
HasRoomAlways(c) == TRUE

\* select { case f.ch <- cfg: ... default: ... }: the send runs when the
\* buffer of the channel has a free place
HasRoom(c) == Len(c.q) < outputCap

\* the function of time.AfterFunc, under f.debounceLock: reloadFile, and
\* the send unless the channel is full; a send on a closed channel panics
TimerFunc(t) ==
    /\ ~panicked /\ t \in 1..Len(fTimers)
    /\ fTimers[t].kind = "func" /\ fTimers[t].st = "fired" /\ ~fLock
    /\ fPending' = FALSE
    /\ LET r == reloadFile(file) IN
        IF r.err # "nil"
        THEN /\ fTimers' = [fTimers EXCEPT ![t] = [@ EXCEPT !.st = "done", !.read = file]]
             /\ UNCHANGED <<fChans, panicked>>
        ELSE IF fChans[fCh].closed
        THEN /\ panicked' = TRUE /\ UNCHANGED <<fChans, fTimers>>
        ELSE IF HasRoom(fChans[fCh])
        THEN /\ fChans' = [fChans EXCEPT ![fCh].q = Append(@, [cfg |-> r.cfg, from |-> t])]
             /\ fTimers' = [fTimers EXCEPT ![t] = [@ EXCEPT !.st = "done", !.read = file,
                                                            !.sent = 1]]
             /\ UNCHANGED panicked
        ELSE /\ fTimers' = [fTimers EXCEPT ![t] = [@ EXCEPT !.st = "done", !.read = file]]
             /\ UNCHANGED <<fChans, panicked>>
    /\ UNCHANGED <<fState, fCh, fCloseCh, fWatcher, fEvents, fTimer, fLock, fWg, file,
                   loops, nLoops, ppc, ploc, pres, nFileEvents>>
    /\ UNCHANGED restOfProvider

\* Close: the state moves from RunningState to StoppedState, or the call
\* returns; close(f.closeCh).  No Watch is under way.
closeBegin(p) ==
    /\ PAt(p, "idle") /\ \A q \in AllProcs : ppc[q] \notin {"watch_reload", "watch_start"}
    /\ IF fState # RunningState
       THEN PReturn(p, "close", "nil", 0) /\ UNCHANGED <<fState, fCloseCh, panicked>>
       ELSE /\ fState' = StoppedState
            /\ fCloseCh' = TRUE
            /\ IF fCloseCh
               THEN PPanic(p) /\ UNCHANGED <<ploc, pres>>
               ELSE /\ ppc' = [ppc EXCEPT ![p] = "close_wait"]
                    /\ UNCHANGED <<ploc, pres, panicked>>
    /\ UNCHANGED <<fCh, fChans, fWatcher, fEvents, fTimer, fTimers, fPending, fLock,
                   fWg, file, loops, nLoops, nFileEvents>>

\* a call of Close by a caller of the provider
FPCloseEnter(p) == closeBegin(p) /\ UNCHANGED restOfProvider

\* a Close that unlocks f.debounceLock when it returns
closeUnlocks == FALSE

\* f.debounceLock when Close returns: Close locks it and has no Unlock
closeLeavesLocked == TRUE

\* f.wg.Wait(); f.debounceLock.Lock(), which Close never unlocks; stop the
\* timer; close(f.ch), which panics on a nil or a closed channel
FPCloseFinish(p) ==
    /\ PAt(p, "close_wait") /\ fWg = 0 /\ ~fLock
    /\ fLock' = closeLeavesLocked
    /\ fPending' = FALSE
    /\ fTimers' = StopTimer(fTimers, fTimer)
    /\ IF fCh = 0 \/ fChans[fCh].closed
       THEN PPanic(p) /\ UNCHANGED <<fChans, ploc, pres>>
       ELSE /\ fChans' = [fChans EXCEPT ![fCh].closed = TRUE]
            /\ PReturn(p, "close", "nil", 0)
            /\ UNCHANGED panicked
    /\ UNCHANGED <<fState, fCh, fCloseCh, fWatcher, fEvents, fTimer, fWg, file, loops,
                   nLoops, nFileEvents>>
    /\ UNCHANGED restOfProvider

FileOps == {"Write", "Create", "Remove", "Chmod", "other"}

ProviderNext ==
    \/ \E op \in FileOps, c \in FileContents : FileChange(op, c)
    \/ \E p \in AllProcs :
        \/ FPWatchEnter(p) \/ FPWatchReload(p) \/ FPWatchStart(p)
        \/ FPCloseEnter(p) \/ FPCloseFinish(p)
    \/ \E k \in 1..MaxWatch :
        \/ watchLoopStart(k) \/ watchLoopEvent(k) \/ scheduleReload(k)
        \/ handleFileRemoval(k) \/ watchLoopReturn(k) \/ watchLoopDefer(k)
    \/ \E t \in 1..(MaxFileEvents + 1) : TimerExpire(t) \/ TimerFunc(t)

InitProvider == Init /\ capacity = minCapacity
SpecProvider == InitProvider /\ [][ProviderNext]_vars

\* the provider after Watch and a long run without a consumer: the output
\* channel holds outputCap configurations, or one less, the watchLoop
\* goroutine is at its select and the timer of the last reload has run
InitProviderFull ==
    /\ \E arg \in {minCapacity} : newDLQOss(arg)
    /\ newEventHubImpl
    /\ fState = RunningState /\ fCh = 1 /\ fCloseCh = FALSE
    /\ \E n \in {outputCap - 1, outputCap} :
        fChans = <<[q |-> [i \in 1..n |-> [cfg |-> 1, from |-> 0]], closed |-> FALSE]>>
    /\ fWatcher = "open" /\ fEvents = <<>>
    /\ fTimer = 1
    /\ fTimers = <<[NewTimer("func") EXCEPT !.st = "done", !.read = 1, !.sent = 1]>>
    /\ fPending = FALSE /\ fLock = FALSE /\ fWg = 1
    /\ file = 1
    /\ loops = [k \in 1..MaxWatch |-> IF k = 1 THEN [pc |-> "select", i |-> 0] ELSE NoLoop]
    /\ nLoops = 1
    /\ ppc = [p \in AllProcs |-> "idle"]
    /\ ploc = [p \in AllProcs |-> NoFile]
    /\ pres = [op |-> "watch", err |-> "nil", ch |-> 1]
    /\ nFileEvents = 0
    /\ pc = [p \in AllProcs |-> "idle"]
    /\ loc = [p \in AllProcs |-> NoLoc]
    /\ res = [p \in AllProcs |-> NoRes]
    /\ budget = -1
    /\ panicked = FALSE
    /\ nPushOk = 0 /\ nPopEv = 0 /\ pending = <<>>
    /\ newProcessorImpl /\ NoManager /\ newSystemCache /\ NoCall

ProviderFullNext ==
    \/ \E op \in {"Write", "Chmod", "other"}, c \in FileContents : FileChange(op, c)
    \/ \E k \in 1..MaxWatch : watchLoopEvent(k) \/ scheduleReload(k)
    \/ \E t \in 1..(MaxFileEvents + 1) : TimerExpire(t) \/ TimerFunc(t)

SpecProviderFull == InitProviderFull /\ [][ProviderFullNext]_vars

\* ============================================================ ManagerImpl
\* the caller of the manager, and the caller that the asyncLoop goroutine is
\* for the provider and the hub
AppProc == 1
LoopProc == 2

\* manager: calls of Close, changes made to the file
MaxManagerClose == 2
MaxManagerChanges == 1
\* manager: the buffer of the channel of a listener
ManagerBufferSize == 1

\* what the file holds: configuration 1 has weights that sum to 1.0 in every
\* group, configuration 2 has the global weights 0.7, 0.3 and 0.1
FileConfig(c) ==
    [Global |-> [Large |-> Num(200), Medium |-> Num(600),
                 Small |-> Num(IF c = 1 THEN 1200 ELSE 1400)],
     SizeClass |-> [Small |-> <<Num(1200), Num(800)>>,
                    Medium |-> <<Num(1000), Num(1000)>>,
                    Large |-> <<Num(2000)>>]]

MReturn(op, err) == mres' = [op |-> op, err |-> err, n |-> mres.n + 1]

\* NewManager: watcher, err := provider.Watch()
NewManagerWatch(p) ==
    /\ mLoop.pc = "off" /\ mres.op = "none"
    /\ \/ pres.op = "none" /\ FPWatchEnter(p)
       \/ FPWatchReload(p)
       \/ FPWatchStart(p)

\* NewManager after Watch returned: the error of Watch, or the manager with
\* its closeCh, m.wg.Add(1) and go m.asyncLoop(); m.state is not assigned
NewManagerReturn(p) ==
    /\ ~panicked /\ mLoop.pc = "off" /\ mres.op = "none"
    /\ ppc[p] = "idle" /\ pres.op = "watch"
    /\ IF pres.err # "nil"
       THEN MReturn("new", pres.err) /\ UNCHANGED <<mWatcher, mWg, mLoop>>
       ELSE /\ mWatcher' = pres.ch
            /\ mWg' = mWg + 1
            /\ mLoop' = [pc |-> "select", cats |-> {}]
            /\ MReturn("new", "nil")
    /\ UNCHANGED <<mState, mCloseCh, mpc, panicked, hubVars, provVars, restOfManager>>

\* the select of asyncLoop: a configuration from m.watcher (the loop returns
\* when the channel is closed; a configuration Normalize rejects is dropped)
\* or the signal of m.closeCh
asyncLoopSelect ==
    /\ ~panicked /\ mLoop.pc = "select"
    /\ LET c == fChans[mWatcher]
           ready == (IF c.q # <<>> \/ c.closed THEN {"watcher"} ELSE {})
                    \cup (IF mCloseCh THEN {"closeCh"} ELSE {})
       IN  \E case \in ready :
            IF case = "closeCh" \/ c.q = <<>>
            THEN mLoop' = [mLoop EXCEPT !.pc = "defer"] /\ UNCHANGED fChans
            ELSE /\ fChans' = [fChans EXCEPT ![mWatcher].q = Tail(@)]
                 /\ mLoop' = [mLoop EXCEPT !.pc =
                        IF Normalize(FileConfig(Head(c.q).cfg)).err # "nil"
                        THEN "select" ELSE "global"]
    /\ UNCHANGED <<fState, fCh, fCloseCh, fWatcher, fEvents, fTimer, fTimers, fPending,
                   fLock, fWg, file, loops, nLoops, ppc, ploc, pres, nFileEvents>>
    /\ UNCHANGED <<mState, mCloseCh, mWg, mWatcher, mpc, mres, panicked, hubVars,
                   restOfManager>>

\* a map without the key of the large category
BuildWithoutLarge == {SmallSizeCategory, MediumSizeCategory}

\* BuildSizeClassStruct: the keys of the map it returns
BuildSizeClassStruct == {SmallSizeCategory, MediumSizeCategory, LargeSizeCategory}

\* dispatchGlobalEvent: the event has no category, which is the zero value
\* SmallSizeCategory
dispatchGlobalEvent ==
    /\ mLoop.pc = "global"
    /\ dispatchBegin(LoopProc, SmallSizeCategory)
    /\ mLoop' = [pc |-> "sizeClass", cats |-> BuildSizeClassStruct]
    /\ UNCHANGED <<mState, mCloseCh, mWg, mWatcher, mpc, mres, provVars, restOfManager>>

\* dispatchSizeClassEvent: one Dispatch for each key of the map, in the
\* order the range over the map takes
dispatchSizeClassEvent ==
    /\ mLoop.pc = "sizeClass"
    /\ \E cat \in mLoop.cats :
        /\ dispatchBegin(LoopProc, cat)
        /\ mLoop' = [mLoop EXCEPT !.cats = @ \ {cat}]
    /\ UNCHANGED <<mState, mCloseCh, mWg, mWatcher, mpc, mres, provVars, restOfManager>>

\* the last Dispatch returned: the loop selects again
asyncLoopAgain ==
    /\ ~panicked /\ mLoop.pc = "sizeClass" /\ mLoop.cats = {}
    /\ hpc[LoopProc] = "idle"
    /\ mLoop' = [mLoop EXCEPT !.pc = "select"]
    /\ UNCHANGED <<mState, mCloseCh, mWg, mWatcher, mpc, mres, panicked, hubVars,
                   provVars, restOfManager>>

\* the deferred function of asyncLoop: m.provider.Close()
asyncLoopDefer ==
    /\ mLoop.pc = "defer"
    /\ closeBegin(LoopProc)
    /\ mLoop' = [mLoop EXCEPT !.pc = "closing"]
    /\ UNCHANGED <<mState, mCloseCh, mWg, mWatcher, mpc, mres, hubVars, restOfManager>>

\* the deferred function of asyncLoop, after Close returned: m.wg.Done()
asyncLoopDone ==
    /\ ~panicked /\ mLoop.pc = "closing" /\ ppc[LoopProc] = "idle"
    /\ mWg' = mWg - 1
    /\ mLoop' = [mLoop EXCEPT !.pc = "done"]
    /\ UNCHANGED <<mState, mCloseCh, mWatcher, mpc, mres, panicked, hubVars, provVars,
                   restOfManager>>

\* Register of the manager: m.mu, which only Register and Unregister take,
\* and eventHub.Register
ManagerRegister(p, tag, sc, size) ==
    /\ mLoop.pc # "off"
    /\ Register(p, tag, sc, size)

\* eventHub.Close() in one step: once.Do, close(d.closeCh), close of the
\* channel of every listener (a panic if one is closed already)
hubCloseAll ==
    /\ hmu = 0 /\ hOnce # "running"
    /\ IF hOnce = "done"
       THEN UNCHANGED <<hCloseCh, hOnce, chans, panicked>>
       ELSE LET chs == {larr[k].ch : k \in 1..listeners} IN
            /\ hCloseCh' = TRUE
            /\ hOnce' = "done"
            /\ chans' = [ch \in DOMAIN chans |->
                            IF ch \in chs THEN CloseChan(chans, ch)[ch] ELSE chans[ch]]
            /\ panicked' = (\E ch \in chs : chans[ch].closed)
    /\ UNCHANGED <<hmu, listeners, larr, hpc, hloc, nDispatch>>

\* Close of the manager: it returns at once unless m.state moves from
\* RunningState to StoppedState; else close(m.closeCh), m.wg.Wait(),
\* m.processor.Close() (which does nothing) and m.eventHub.Close()
ManagerClose(p) ==
    /\ ~panicked /\ mLoop.pc # "off" /\ hpc[p] = "idle" /\ ppc[p] = "idle"
    /\ IF mpc = "idle"
       THEN /\ mres.n <= MaxManagerClose
            /\ IF mState # RunningState
               THEN /\ MReturn("close", "nil")
                    /\ UNCHANGED <<mState, mCloseCh, mpc, panicked>>
               ELSE /\ mState' = StoppedState
                    /\ mCloseCh' = TRUE
                    /\ panicked' = mCloseCh
                    /\ mpc' = "wait"
                    /\ UNCHANGED mres
            /\ UNCHANGED hubVars
       ELSE /\ mWg = 0
            /\ hubCloseAll
            /\ mpc' = "idle"
            /\ MReturn("close", "nil")
            /\ UNCHANGED <<mState, mCloseCh>>
    /\ UNCHANGED <<mWg, mWatcher, mLoop, provVars, restOfManager>>

\* the manager with its provider and its hub: NewManager, listeners that
\* register and receive, changes of the file, Close of the manager, and a
\* Close of the provider by its owner
ManagerNext ==
    \/ NewManagerWatch(AppProc)
    \/ NewManagerReturn(AppProc)
    \/ asyncLoopSelect
    \/ dispatchGlobalEvent
    \/ dispatchSizeClassEvent
    \/ DispatchStep(LoopProc)
    \/ asyncLoopAgain
    \/ asyncLoopDefer
    \/ asyncLoopDone
    \/ ManagerRegister(AppProc, OrderTag, AllSizeCategory, ManagerBufferSize)
    \/ \E ch \in 1..MaxRegister : Receive(ch)
    \/ ManagerClose(AppProc)
    \/ mLoop.pc # "off" /\ (FPCloseEnter(AppProc) \/ FPCloseFinish(AppProc))
    \/ \E c \in FileContents :
        nFileEvents < MaxManagerChanges /\ FileChange("Write", c)
    \/ \E k \in 1..MaxWatch :
        \/ watchLoopStart(k) \/ watchLoopEvent(k) \/ scheduleReload(k)
        \/ watchLoopReturn(k) \/ watchLoopDefer(k)
    \/ \E t \in 1..(MaxFileEvents + 1) : TimerExpire(t) \/ TimerFunc(t)

InitManager == Init /\ capacity = minCapacity
SpecManager == InitManager /\ [][ManagerNext]_vars

\* the manager while it runs: NewManager, listeners of every category that
\* register and receive, changes of the file, and the asyncLoop goroutine
\* that normalizes and dispatches what the provider sends
MaxLoopChanges == 1

\* the components after construction, the file holding any configuration
InitManagerLoop ==
    /\ newDLQOss(minCapacity)
    /\ newEventHubImpl
    /\ \E c \in FileContents : NewFileProviderOn(c)
    /\ pc = [p \in AllProcs |-> "idle"]
    /\ loc = [p \in AllProcs |-> NoLoc]
    /\ res = [p \in AllProcs |-> NoRes]
    /\ budget = -1
    /\ panicked = FALSE
    /\ nPushOk = 0 /\ nPopEv = 0 /\ pending = <<>>
    /\ newProcessorImpl /\ NoManager /\ newSystemCache /\ NoCall

ManagerLoopNext ==
    \/ NewManagerWatch(AppProc)
    \/ NewManagerReturn(AppProc)
    \/ asyncLoopSelect
    \/ dispatchGlobalEvent
    \/ dispatchSizeClassEvent
    \/ DispatchStep(LoopProc)
    \/ asyncLoopAgain
    \/ \E sc \in Categories :
        ManagerRegister(AppProc, OrderTag, sc, ManagerBufferSize)
    \/ \E ch \in 1..MaxRegister : Receive(ch)
    \/ \E c \in FileContents :
        nFileEvents < MaxLoopChanges /\ FileChange("Write", c)
    \/ \E k \in 1..MaxWatch :
        watchLoopStart(k) \/ watchLoopEvent(k) \/ scheduleReload(k)
    \/ \E t \in 1..(MaxFileEvents + 1) : TimerExpire(t) \/ TimerFunc(t)

SpecManagerLoop == InitManagerLoop /\ [][ManagerLoopNext]_vars

\* the hub with a goroutine that registers and dispatches and another that
\* unregisters while a Dispatch is under way
DispatchProc == 1
UnregisterProc == 2

HubConcNext ==
    \/ \E tag \in Tags, sc \in ListenerCats, size \in BufferSizes :
        Register(DispatchProc, tag, sc, size)
    \/ \E cat \in EventCats : DispatchEnter(DispatchProc, cat)
    \/ DispatchStep(DispatchProc)
    \/ \E tag \in Tags : UnregisterEnter(UnregisterProc, tag)
    \/ UnregisterShift(UnregisterProc)
    \/ \E ch \in 1..MaxRegister : Receive(ch)

SpecHubConc == InitHub /\ [][HubConcNext]_vars

\* ============================================================ slab: alloc
\* the bytes of the size classes, SizeClass8B first
sizeClassSizes ==
    <<8, 16, 32, 64, 128, 256, 512, 1024, 2048, 4096, 8192, 16384, 32768, 65536,
      131072, 262144, 524288, 1048576, 2097152>>
\* the bytes of the largest size class
LargestClassSize == sizeClassSizes[Len(sizeClassSizes)]

\* alloc: the body is `return nil`
alloc(size) == "nil"

\* unsafe.Sizeof of the element of each typed helper
SizeOf(fn) ==
    CASE fn \in {"AllocInt32s", "AllocUint32s", "AllocFloat32s"} -> 4
      [] fn \in {"AllocInt64s", "AllocUint64s", "AllocFloat64s"} -> 8
TypedHelpers == {"AllocInt32s", "AllocInt64s", "AllocUint32s", "AllocUint64s",
                 "AllocFloat32s", "AllocFloat64s"}

\* AllocBytes: nil when alloc gave nil, else unsafe.Slice(rawPtr, size); req
\* is the argument alloc was called with
AllocBytes(size) ==
    LET ptr == alloc(size)
    IN  IF ptr = "nil"
        THEN [fn |-> "AllocBytes", req |-> size, ptr |-> "nil", len |-> 0]
        ELSE [fn |-> "AllocBytes", req |-> size, ptr |-> ptr, len |-> size]

\* AllocInt32s .. AllocFloat64s: ptr := alloc(count); size := count *
\* sizeof; unsafe.Slice(rawPtr, size)
AllocTyped(fn, cnt) ==
    LET ptr == alloc(cnt)
        size == cnt * SizeOf(fn)
    IN  IF ptr = "nil"
        THEN [fn |-> fn, req |-> cnt, ptr |-> "nil", len |-> 0]
        ELSE [fn |-> fn, req |-> cnt, ptr |-> ptr, len |-> size]

\* the sizes and counts asked for: the bounds of every size class
AllocArgs ==
    {0, 1} \cup {sizeClassSizes[k] : k \in 1..Len(sizeClassSizes)}
           \cup {sizeClassSizes[k] + 1 : k \in 1..Len(sizeClassSizes)}

AllocBytesCall ==
    /\ fnRet = NoRet
    /\ fnRet' = AllocBytes(fnArgs.n)
    /\ UNCHANGED <<fnArgs, panicked, restOfCall>>

AllocTypedCall(fn) ==
    /\ fnRet = NoRet
    /\ fnRet' = AllocTyped(fn, fnArgs.n)
    /\ UNCHANGED <<fnArgs, panicked, restOfCall>>

InitSlab ==
    /\ InitComponents /\ capacity = minCapacity
    /\ newProcessorImpl /\ NoManager /\ newSystemCache
    /\ fnArgs \in [n : AllocArgs] /\ fnRet = NoRet
SlabNext == AllocBytesCall \/ \E fn \in TypedHelpers : AllocTypedCall(fn)
SpecSlab == InitSlab /\ [][SlabNext]_vars

\* ============================================================ core: Manager
\* int(x + 0.5) for x = num / den >= 0: the conversion truncates
RoundHalfUp(num, den) == (2 * num + den) \div (2 * den)

\* utils.CalculateCores, the weights in hundredths: a sum below 0.01 is
\* replaced by the weights 0.5 and 0.5; effectiveCores below 2 becomes
\* min(2, cores); each of the two results is rounded on its own
CalculateCores(cores, smScale, mmScale) ==
    LET tiny == smScale + mmScale < 1
        sm == IF tiny THEN 50 ELSE smScale
        mm == IF tiny THEN 50 ELSE mmScale
        effectiveScale == IF tiny THEN 100 ELSE smScale + mmScale
        rounded == RoundHalfUp(cores * effectiveScale, 100)
        effectiveCores == IF rounded < 2 THEN Min(2, cores) ELSE rounded
    IN  [smCores |-> RoundHalfUp(effectiveCores * sm, effectiveScale),
         mmCores |-> RoundHalfUp(effectiveCores * mm, effectiveScale)]

\* Manager.calculateShards
calculateShards(cpuCores, smCores) ==
    IF cpuCores <= 32 THEN smCores * 4
    ELSE IF cpuCores <= 64 THEN smCores * 3
    ELSE smCores * 2

\* newSmallManager: the number of shards made for each of the small size
\* classes
newSmallManager(shardCount) ==
    LET singleSizeShardCount == shardCount \div SmallSizeClassNums
    IN  [sizeClass \in 1..SmallSizeClassNums |-> singleSizeShardCount]

\* newMediumManager: the length of shards
newMediumManager(shards) == shards

\* core.NewManager with runtime.GOMAXPROCS(0) = cpuCores, which is at least 1
CoreNewManager(cpuCores, smWeight, mmWeight) ==
    LET c == CalculateCores(cpuCores, smWeight, mmWeight)
    IN  [fn |-> "NewManager", smCores |-> c.smCores, mmCores |-> c.mmCores,
         sm |-> newSmallManager(calculateShards(cpuCores, c.smCores)),
         mm |-> newMediumManager(calculateShards(cpuCores, c.mmCores))]

\* the CPU counts and the weights (in hundredths; all are binary fractions,
\* which float64 holds exactly)
CoreCounts == 1..MaxCores \cup {32, 33, 64, 65, 128}
CoreWeights == {0, 25, 50, 75, 100}

CalculateCoresCall ==
    /\ fnRet = NoRet
    /\ LET c == CalculateCores(fnArgs.cores, fnArgs.sm, fnArgs.mm)
       IN  fnRet' = [fn |-> "CalculateCores", smCores |-> c.smCores,
                     mmCores |-> c.mmCores]
    /\ UNCHANGED <<fnArgs, panicked, restOfCall>>

CoreNewManagerCall ==
    /\ fnRet = NoRet
    /\ fnRet' = CoreNewManager(fnArgs.cores, fnArgs.sm, fnArgs.mm)
    /\ UNCHANGED <<fnArgs, panicked, restOfCall>>

InitCore ==
    /\ InitComponents /\ capacity = minCapacity
    /\ newProcessorImpl /\ NoManager /\ newSystemCache
    /\ fnArgs \in [cores : CoreCounts, sm : CoreWeights, mm : CoreWeights]
    /\ fnRet = NoRet
CoreNext == CalculateCoresCall \/ CoreNewManagerCall
SpecCore == InitCore /\ [][CoreNext]_vars

\* ============================================================ cache
\* The callers of the cache are the processes p.  A call of L1 is one step
\* for each atomic operation on a counter; a call of L2 runs under l.mu and
\* is one step.
CAt(p, l) == ~panicked /\ cpc[p] = l
CReturn(p, r) ==
    /\ cpc' = [cpc EXCEPT ![p] = "idle"]
    /\ cloc' = [cloc EXCEPT ![p] = NoCLoc]
    /\ cres' = r
CPanic(p) ==
    /\ panicked' = TRUE
    /\ cpc' = [cpc EXCEPT ![p] = "panic"]
    /\ UNCHANGED <<cloc, cres>>
CBegin(p) ==
    /\ CAt(p, "idle") /\ nCacheOps < MaxCacheOps
    /\ nCacheOps' = nCacheOps + 1

\* idx := sizeClassSizes[sc]: the index of L1 is the size of the class in
\* bytes
L1Index(sc) == sizeClassSizes[sc + 1]

\* l.counters[idx], l.slots[idx]: arrays of numSizeClasses elements
InRange(idx) == idx >= 0 /\ idx < numSizeClasses

\* L1Cache.tryPut up to its first load of the counter
L1PutEnter(p, sc, ptr) ==
    /\ CBegin(p)
    /\ LET idx == L1Index(sc) IN
        IF ~InRange(idx)
        THEN CPanic(p)
        ELSE IF l1counters[idx] >= L1Sizes
        THEN /\ CReturn(p, [op |-> "l1put", sc |-> sc, size |-> 0, ptr |-> ptr,
                            ok |-> FALSE])
             /\ UNCHANGED panicked
        ELSE /\ cpc' = [cpc EXCEPT ![p] = "put_load"]
             /\ cloc' = [cloc EXCEPT ![p] = [idx |-> idx, pos |-> 0, sc |-> sc,
                                             ptr |-> ptr]]
             /\ UNCHANGED <<cres, panicked>>
    /\ UNCHANGED <<l1counters, l1slots, l2slots, l2size, restOfCache>>

\* pos := atomic.LoadUint32(&l.counters[idx])
L1PutLoad(p) ==
    /\ CAt(p, "put_load")
    /\ cloc' = [cloc EXCEPT ![p].pos = l1counters[cloc[p].idx]]
    /\ cpc' = [cpc EXCEPT ![p] = "put_cas"]
    /\ UNCHANGED <<l1counters, l1slots, l2slots, l2size, cres, nCacheOps, panicked,
                   restOfCache>>

\* atomic.CompareAndSwapUint32(&l.counters[idx], pos, pos+1) and the return:
\* the pointer is stored nowhere.  The counter, a uint32 that rises by one
\* for each call, stays far below 2^32 here.
L1PutCas(p) ==
    /\ CAt(p, "put_cas")
    /\ LET idx == cloc[p].idx
           swapped == l1counters[idx] = cloc[p].pos
       IN  /\ l1counters' = IF swapped
                            THEN [l1counters EXCEPT ![idx] = cloc[p].pos + 1]
                            ELSE l1counters
           /\ CReturn(p, [op |-> "l1put", sc |-> cloc[p].sc, size |-> 0,
                          ptr |-> cloc[p].ptr, ok |-> swapped])
    /\ UNCHANGED <<l1slots, l2slots, l2size, nCacheOps, panicked, restOfCache>>

\* L1Cache.tryAlloc: nil when the counter is zero, and nil when it is not
L1TryAlloc(p, sc) ==
    /\ CBegin(p)
    /\ LET idx == L1Index(sc) IN
        IF ~InRange(idx)
        THEN CPanic(p)
        ELSE /\ CReturn(p, [op |-> "l1alloc", sc |-> sc, size |-> 0, ptr |-> NilPtr,
                            ok |-> FALSE])
             /\ UNCHANGED panicked
    /\ UNCHANGED <<l1counters, l1slots, l2slots, l2size, restOfCache>>

\* cacheEntry{}
NoEntry == [ptr |-> NilPtr, sizeClass |-> 0]

\* L2Cache.tryPut
L2TryPut(p, sc, ptr) ==
    /\ CBegin(p)
    /\ IF l2size >= L2Slots
       THEN /\ CReturn(p, [op |-> "l2put", sc |-> sc, size |-> 0, ptr |-> ptr,
                           ok |-> FALSE])
            /\ UNCHANGED <<l2slots, l2size>>
       ELSE /\ l2slots' = IF l2size < Len(l2slots)
                          THEN [l2slots EXCEPT ![l2size + 1] =
                                    [ptr |-> ptr, sizeClass |-> sc]]
                          ELSE Append(l2slots, [ptr |-> ptr, sizeClass |-> sc])
            /\ l2size' = l2size + 1
            /\ CReturn(p, [op |-> "l2put", sc |-> sc, size |-> 0, ptr |-> ptr,
                           ok |-> TRUE])
    /\ UNCHANGED <<l1counters, l1slots, panicked, restOfCache>>

\* the slots below l.size whose class holds size bytes
Qualifying(slots, n, size) ==
    {i \in 1..n : sizeClassSizes[slots[i].sizeClass + 1] >= size}
TopOf(is) == CHOOSE i \in is : \A j \in is : j <= i

\* return l.slots[i].ptr, after l.slots[i] = cacheEntry{}
ReadAfterClear(slots, cleared, i) == cleared[i].ptr

\* L2Cache.tryAlloc: the scan from the top; the entry found is cleared
\* where it is and l.size goes down by one
L2TryAlloc(p, size) ==
    /\ CBegin(p)
    /\ LET found == Qualifying(l2slots, l2size, size) IN
        IF l2size <= 0 \/ found = {}
        THEN /\ CReturn(p, [op |-> "l2alloc", sc |-> 0, size |-> size,
                            ptr |-> NilPtr, ok |-> FALSE])
             /\ UNCHANGED <<l2slots, l2size>>
        ELSE LET i == TopOf(found)
                 cleared == [l2slots EXCEPT ![i] = NoEntry]
             IN  /\ l2size' = l2size - 1
                 /\ l2slots' = cleared
                 /\ CReturn(p, [op |-> "l2alloc", sc |-> 0, size |-> size,
                                ptr |-> ReadAfterClear(l2slots, cleared, i),
                                ok |-> TRUE])
    /\ UNCHANGED <<l1counters, l1slots, panicked, restOfCache>>

\* the classes and the sizes the callers use: the index of the class of 32
\* bytes is beyond the counters
CacheClasses == {0, 1, 2}
CacheSizes == {8, 9, 32}

\* L1 under concurrent callers; the counter of row 8 starts at zero or, after
\* L1Sizes - 1 calls of tryPut for the class of 8 bytes, one below L1Sizes
InitL1 ==
    /\ InitComponents /\ capacity = minCapacity
    /\ newProcessorImpl /\ NoManager /\ NoCall
    /\ \E n \in {0, L1Sizes - 1} :
        l1counters = [idx \in 0..(numSizeClasses - 1) |->
                        IF idx = L1Index(0) THEN n ELSE 0]
    /\ l1slots = [idx \in 0..(numSizeClasses - 1) |-> <<>>]
    /\ l2slots = <<>> /\ l2size = 0
    /\ CacheIdle

L1Next ==
    \E p \in AllProcs :
        \/ \E sc \in CacheClasses, ptr \in CachePtrs : L1PutEnter(p, sc, ptr)
        \/ L1PutLoad(p)
        \/ L1PutCas(p)
        \/ \E sc \in CacheClasses : L1TryAlloc(p, sc)

SpecL1 == InitL1 /\ [][L1Next]_vars

\* L2, its calls made one after the other under the mutex
L2Next ==
    \E p \in SeqProcs :
        \/ \E sc \in CacheClasses, ptr \in CachePtrs : L2TryPut(p, sc, ptr)
        \/ \E size \in CacheSizes : L2TryAlloc(p, size)

InitL2 == Init /\ capacity = minCapacity
SpecL2 == InitL2 /\ [][L2Next]_vars

\* ------------------------------------------------------------ the claims
\* whether the context of the call that p has just entered, or has just
\* returned from, is cancelled
CtxAfter(p) == IF pc'[p] = "idle" THEN res'[p].ctx ELSE loc'[p].ctx

\* C1: on an open queue GetSize returns the number of Push calls that
\* returned nil minus the number of Pop calls that returned a stored event
C1_SizeIsPushesMinusPops ==
    \A p \in AllProcs :
        (pc[p] = "idle" /\ res[p].op = "size" /\ ~closeCh)
            => res[p].ev = nPushOk - nPopEv

\* C2: the queue is FIFO: a Pop that returns without error returns the
\* oldest event pushed and not yet popped, and the empty event when there
\* is none
C2_PopReturnsOldest ==
    [][\A p \in SeqProcs :
        (pc[p] \in {"rpop_check", "pop_delete"} /\ pc'[p] = "idle"
            /\ res'[p].err = "nil")
            => res'[p].ev = (IF pending = <<>> THEN EmptyEv ELSE Head(pending))]_vars

\* C3: an expansion that finds the buffer full below maxCapacity leaves the
\* capacity at min(maxCapacity, 2 * capacity), and the push that asked for
\* it then finds room
C3_ExpansionDoublesCapacity ==
    [][\A p \in SeqProcs :
        (pc[p] = "exp_adjust" /\ pc'[p] = "push_retry"
            /\ loc[p].capacity < maxCapacity)
            => /\ capacity' = Min(maxCapacity, 2 * loc[p].capacity)
               /\ count' < capacity']_vars

\* C4: once Close was called, a Push or a Pop with a context that is not
\* cancelled returns ErrQueueClosed and no event, and a further Close
\* changes nothing; none of them panics
C4_ClosedQueueRejects ==
    [][\A p \in SeqProcs :
        /\ (closeCh /\ (PushEnter(p) \/ PopEnter(p)) /\ ~CtxAfter(p))
            => /\ pc'[p] = "idle"
               /\ res'[p].err = "ErrQueueClosed" /\ res'[p].ev = NilEv
               /\ ~panicked'
        /\ (once = "done" /\ CloseEnter(p))
            => /\ pc'[p] = "idle" /\ ~panicked'
               /\ UNCHANGED <<dlqVars, histVars>>]_vars

\* ten events pushed and popped, the queue closed, and a Pop refused
C4_Witness ==
    /\ closeCh /\ once = "done" /\ nPushOk = 10 /\ nPopEv = 10
    /\ res[1] = [op |-> "pop", err |-> "ErrQueueClosed", ev |-> NilEv, ctx |-> FALSE]

\* C5: in every state 0 <= count <= capacity and
\* minCapacity <= capacity <= maxCapacity, whatever capacity newDLQOss was
\* given and however the steps of concurrent Push and Pop calls interleave
C5_CountAndCapacityInRange ==
    /\ 0 <= count /\ count <= capacity
    /\ minCapacity <= capacity /\ capacity <= maxCapacity

\* C6: on an open queue a Push or a Pop whose context is cancelled at the
\* call returns the cancellation error and leaves count, head, tail, the
\* slots and the id counter alone; a Push in the retry loop of a full
\* buffer returns the cancellation error at its next select
C6_CancelledContext ==
    [][\A p \in SeqProcs :
        /\ (~closeCh /\ (PushEnter(p) \/ PopEnter(p)) /\ CtxAfter(p))
            => /\ pc'[p] = "idle" /\ res'[p].err = "Canceled"
               /\ UNCHANGED <<count, head, tail, buf, eventID>>
        /\ (~closeCh /\ loc[p].ctx /\ PushRetry(p))
            => /\ pc'[p] = "idle" /\ res'[p].err = "Canceled"
               /\ res'[p].op = "push"]_vars

\* a Push gave up in the retry loop of the full buffer (its id is drawn and
\* its event is not stored), and a Pop with a cancelled context returned
C6_Witness ==
    /\ ~closeCh /\ count = capacity /\ eventID = nPushOk + 1
    /\ res[1] = [op |-> "pop", err |-> "Canceled", ev |-> EmptyEv, ctx |-> TRUE]

\* C7: Dispatch hands the event to a listener only if the filter of the
\* listener is the category of the event or AllSizeCategory; a listener
\* with another filter is passed over and its channel left alone; a
\* listener with such a filter whose open channel has room, on a hub that
\* is not closed, gets the event at the end of its channel
C7_DispatchFilters ==
    [][\A p \in SeqProcs :
        (hpc[p] = "dispatch" /\ hloc[p].i <= hloc[p].snap.len
            /\ hloc'[p].i = hloc[p].i + 1)
        => LET l == SnapArr(hloc[p].snap)[hloc[p].i]
               ev == hloc[p].ev
               c == chans[l.ch]
               wanted == l.category = ev.category \/ l.category = AllSizeCategory
               delivered == hloc'[p].last = "sent"
           IN  /\ \E k \in 1..listeners : larr[k] = l
               /\ delivered => wanted
               /\ ~delivered => chans' = chans
               /\ delivered =>
                    /\ chans'[l.ch].q = (IF c.cap = 0 THEN c.q ELSE Append(c.q, ev))
                    /\ \A d \in 1..Len(chans) : d # l.ch => chans'[d] = chans[d]
               /\ ~wanted => hloc'[p].last = "skip"
               /\ (wanted /\ ~hCloseCh /\ ~c.closed /\ Len(c.q) < c.cap)
                    => delivered]_vars

\* a Dispatch has passed over a listener with another filter while the
\* channel of a listener registered for AllSizeCategory holds an event of
\* the medium category
C7_Witness ==
    /\ hpc[1] = "dispatch" /\ hloc[1].last = "skip"
    /\ \E k \in 1..listeners :
        /\ larr[k].category = AllSizeCategory
        /\ chans[larr[k].ch].q # <<>>
        /\ Head(chans[larr[k].ch].q).category = MediumSizeCategory

\* C8: Unregister(tag) closes the channel Register(tag) returned and takes
\* the listener out of the hub, without a panic; for a tag that is not
\* registered it changes nothing
C8_UnregisterClosesAndRemoves ==
    [][\A p \in SeqProcs :
        /\ (\E tag \in Tags : UnregisterEnter(p, tag)) => ~panicked'
        /\ UnregisterShift(p) =>
            \A k \in 1..listeners :
                larr[k].tag = hloc[p].tag =>
                    /\ chans'[larr[k].ch].closed
                    /\ \A j \in 1..listeners' : larr'[j].ch # larr[k].ch
        /\ \A tag \in Tags :
            (UnregisterEnter(p, tag) /\ FirstWithTag(tag) = 0)
                => UNCHANGED <<listeners, larr, chans>>]_vars

\* C9: no channel of a listener is closed twice, whatever the sequence of
\* Register, Unregister and Close
C9_ChannelsClosedOnce == \A ch \in 1..Len(chans) : chans[ch].closes <= 1

\* C10: no two registered listeners have the same tag
C10_TagsUnique ==
    \A i, j \in 1..listeners : i # j => larr[i].tag # larr[j].tag

\* C11: once a select of Dispatch has taken the case of the close signal,
\* Dispatch makes no select for a further listener: its next step neither
\* sends, nor waits for the deadline, nor panics on a closed channel
C11_DispatchAbortsOnClose ==
    [][\A p \in SeqProcs :
        (hloc[p].last = "closed" /\ DispatchStep(p))
            => /\ ~panicked'
               /\ chans' = chans
               /\ hpc'[p] = "dispatch" => hloc'[p].last = "skip"]_vars

\* C12: the events a subscriber receives come in the order of the Dispatch
\* calls (which number their events 1, 2, ...): the events that wait in a
\* channel, which its consumer takes from the front, are in that order
C12_SubscriberOrder ==
    \A ch \in 1..Len(chans) :
        LET q == chans[ch].q IN
        \A i, j \in 1..Len(q) : i < j => q[i].id < q[j].id

\* the events of two Dispatch calls wait in the channel of a subscriber,
\* the event of the first call in front
C12_Witness ==
    \E ch \in 1..Len(chans) :
        /\ Len(chans[ch].q) = 2
        /\ chans[ch].q[1].id = 1 /\ chans[ch].q[2].id = 2

\* the places of the output channels that hold a configuration sent by the
\* function of timer t
SentBy(t) ==
    {ci \in (1..Len(fChans)) \X (1..(MaxFileEvents + 1)) :
        /\ ci[2] <= Len(fChans[ci[1]].q)
        /\ fChans[ci[1]].q[ci[2]].from = t}

\* C13: in a burst of write and create events, a timer whose successor was
\* armed before it expired emits nothing (no interim configuration); the
\* function of a timer emits at most one configuration, only after the
\* timer expired, and it is the content the file had at that time
C13_DebounceEmitsOnce ==
    \A t \in 1..Len(fTimers) :
        /\ fTimers[t].next = "before" => SentBy(t) = {}
        /\ Cardinality(SentBy(t)) = fTimers[t].sent
        /\ fTimers[t].sent = 1 => fTimers[t].kind = "func" /\ fTimers[t].st = "done"
        /\ \A ci \in SentBy(t) : fChans[ci[1]].q[ci[2]].cfg = fTimers[t].read

\* a burst of two events, the second handled before the timer of the first
\* expired: the first timer emitted nothing, the second emitted the one
\* configuration that follows the initial one in the channel
C13_Witness ==
    \E t1, t2 \in 1..Len(fTimers) :
        /\ t1 < t2 /\ fTimers[t1].kind = "func" /\ fTimers[t1].next = "before"
        /\ fTimers[t2].sent = 1 /\ fCh # 0
        /\ Len(fChans[fCh].q) = 2 /\ fChans[fCh].q[2].from = t2

\* C14: nothing is sent on an output channel that is closed, the function
\* of a timer never panics on it, and when the Close call that stopped the
\* provider returns the output channel is closed
C14_NoSendAfterClose ==
    [][/\ \A c \in 1..Len(fChans) : fChans[c].closed => fChans'[c] = fChans[c]
       /\ \A t \in 1..Len(fTimers) : TimerFunc(t) => ~panicked'
       /\ \A p \in AllProcs :
            (FPCloseFinish(p) /\ ppc'[p] = "idle") => fChans'[fCh].closed]_vars

\* Close has returned and the channel is closed while a timer that expired
\* has not yet run its function
C14_Witness ==
    /\ fCh # 0 /\ fChans[fCh].closed /\ \A p \in AllProcs : ppc[p] = "idle"
    /\ pres.op = "close"
    /\ \E t \in 1..Len(fTimers) : fTimers[t].kind = "func" /\ fTimers[t].st = "fired"

\* C15: no step of a Close call panics
C15_CloseNeverPanics ==
    [][\A p \in AllProcs : (FPCloseEnter(p) \/ FPCloseFinish(p)) => ~panicked']_vars

\* C16: the channel Watch returns holds one record, the configuration Watch
\* decoded from the file, before the watchLoop takes an event; the first
\* record of a channel never changes
C16_InitialConfigFirst ==
    [][/\ \A p \in AllProcs :
            /\ (FPWatchReload(p) /\ ppc'[p] = "watch_start") => ploc'[p] = file
            /\ FPWatchStart(p) =>
                /\ pres'.err = "nil" /\ pres'.ch = fCh'
                /\ fChans'[fCh'].q = <<[cfg |-> ploc[p], from |-> 0]>>
                /\ loops'[nLoops'].pc = "start"
       /\ \A c \in 1..Len(fChans) :
            /\ Len(fChans[c].q) >= 1
            /\ fChans'[c].q[1] = fChans[c].q[1]]_vars

\* Watch found the second configuration in the file, the file changed, and
\* the first configuration followed it in the channel
C16_Witness ==
    /\ fCh # 0 /\ Len(fChans[fCh].q) = 2
    /\ fChans[fCh].q[1] = [cfg |-> 2, from |-> 0]
    /\ fChans[fCh].q[2].cfg = 1

\* C17: handleFileRemoval looks for the file at most maxAttempts times; it
\* goes on to scheduleReload exactly when a look within these attempts
\* finds the file (the watcher being open); after maxAttempts failed looks
\* it returns to the select of the watchLoop, and no timer is armed
C17_RemovalRetries ==
    [][\A k \in 1..MaxWatch :
        /\ loops'[k].i <= maxAttempts
        /\ handleFileRemoval(k) =>
            /\ UNCHANGED <<fTimer, fTimers>>
            /\ loops'[k].pc = "schedule"
                    <=> (loops[k].i < maxAttempts /\ file # NoFile /\ fWatcher = "open")
            /\ loops[k].i >= maxAttempts => loops'[k].pc = "select"
            /\ (loops[k].i < maxAttempts /\ file = NoFile)
                    => loops'[k] = [pc |-> "removal", i |-> loops[k].i + 1]
        /\ (scheduleReload(k) /\ fState = RunningState)
            => /\ fTimer' = Len(fTimers') /\ fTimers'[fTimer'].st = "armed"
               /\ loops'[k].pc = "select"]_vars

\* the file was removed and created again: the watchLoop found it on the
\* fourth look and is about to schedule the reload, the create event still
\* waiting
C17_Witness ==
    /\ loops[1].pc = "schedule" /\ fEvents = <<"Create">> /\ nFileEvents = 2
    /\ file # NoFile

\* C18: a Watch called while the provider is running, or after Close was
\* called, returns an error and makes no channel and no watchLoop
C18_NotRestartable ==
    [][\A p \in AllProcs :
        (FPWatchEnter(p) /\ (fState = RunningState \/ fCloseCh))
            => /\ ppc'[p] = "idle" /\ pres'.op = "watch" /\ pres'.err # "nil"
               /\ UNCHANGED <<fState, fCh, fChans, nLoops>>]_vars

\* whether the weights of a group add up to 1.0 within the tolerance: the
\* sum is a number and is less than the tolerance away from the total
SumsToOne(ws) ==
    /\ \A i \in 1..Len(ws) : ~ws[i].nan
    /\ LET total == sumFrom(Num(0), ws).v
       IN  total - requireTotal < tolerance /\ requireTotal - total < tolerance
AllSumToOne(cfg) ==
    /\ SumsToOne(<<cfg.Global.Large, cfg.Global.Medium, cfg.Global.Small>>)
    /\ SumsToOne(cfg.SizeClass.Small)
    /\ SumsToOne(cfg.SizeClass.Medium)
    /\ SumsToOne(cfg.SizeClass.Large)

\* C20: Normalize returns its input unchanged with a nil error if and only if
\* each of the four groups of weights (global, small, medium, large) sums to
\* 1.0 within the tolerance 0.001; otherwise it returns an error and the zero
\* configuration.
C20_NormalizeAcceptsIffSumsToOne ==
    nres.op = "normalize" =>
        IF AllSumToOne(ncfg)
        THEN nres.err = "nil" /\ nres.cfg = ncfg
        ELSE nres.err # "nil" /\ nres.cfg = ZeroConfig

\* the same, for the configurations none of whose weights is NaN
NoNaN(cfg) ==
    /\ \A f \in {"Large", "Medium", "Small"} :
        /\ ~cfg.Global[f].nan
        /\ \A i \in 1..Len(cfg.SizeClass[f]) : ~cfg.SizeClass[f][i].nan
NormalizeOnNumbers ==
    (nres.op = "normalize" /\ NoNaN(ncfg)) =>
        IF AllSumToOne(ncfg)
        THEN nres.err = "nil" /\ nres.cfg = ncfg
        ELSE nres.err # "nil" /\ nres.cfg = ZeroConfig

\* C19: Close of a manager that NewManager returned signals the shutdown,
\* waits until asyncLoop has exited and closes the processor and the hub:
\* when Close returns, asyncLoop is over, the provider is closed (stopped, its
\* output channel closed) and the hub and the channel of every registered
\* listener are closed.
C19_CloseShutsDown ==
    [][(ManagerClose(AppProc) /\ mres'.op = "close" /\ mres'.n = mres.n + 1) =>
        /\ mCloseCh'
        /\ mLoop'.pc = "done" /\ mWg' = 0
        /\ fState' = StoppedState /\ fChans'[mWatcher'].closed
        /\ hCloseCh'
        /\ \A k \in 1..listeners' : chans'[larr'[k].ch].closed]_vars

\* C21: for every n with 0 < n <= the largest size class, AllocBytes(n)
\* returns a non-nil byte sequence of length n: alloc(n) gave a block.
C21_AllocBytesGivesBlock ==
    (fnRet.fn = "AllocBytes" /\ 0 < fnArgs.n /\ fnArgs.n <= LargestClassSize) =>
        fnRet.ptr # "nil" /\ fnRet.len = fnArgs.n

\* C22: each typed helper called with count asks alloc for count * sizeof(T)
\* bytes and, when alloc gives a block, returns a sequence of exactly count
\* elements.
C22_TypedHelpersSize ==
    fnRet.fn \in TypedHelpers =>
        /\ fnRet.req = fnArgs.n * SizeOf(fnRet.fn)
        /\ fnRet.ptr # "nil" => fnRet.len = fnArgs.n

\* C23: for C >= 1 and weights with w_s + w_m >= 0.01, with effective =
\* max(2, round(C * (w_s + w_m))), CalculateCores returns small_cores =
\* round(effective * w_s / (w_s + w_m)) and medium_cores = effective -
\* small_cores, so that the two add up to effective, which is at least 2.
C23_CoresAddUpToEffective ==
    (fnRet.fn = "CalculateCores" /\ fnArgs.sm + fnArgs.mm >= 1) =>
        LET scale == fnArgs.sm + fnArgs.mm
            effective == Max(2, RoundHalfUp(fnArgs.cores * scale, 100))
            small == RoundHalfUp(effective * fnArgs.sm, scale)
        IN  /\ fnRet.smCores = small
            /\ fnRet.mmCores = effective - small

\* C24: NewManager gives every small size class small_cores * K shards, with
\* K = 4 for C <= 32, 3 for C <= 64, else 2; so every small size class has
\* at least one shard when small_cores >= 1.
C24_ShardsPerSmallClass ==
    fnRet.fn = "NewManager" =>
        LET K == IF fnArgs.cores <= 32 THEN 4
                 ELSE IF fnArgs.cores <= 64 THEN 3 ELSE 2
        IN  \A sizeClass \in DOMAIN fnRet.sm :
                /\ fnRet.sm[sizeClass] = fnRet.smCores * K
                /\ fnRet.smCores >= 1 => fnRet.sm[sizeClass] >= 1

\* the events of a ring buffer in logical order: n slots from head on
LogicalSeq(b, h, n, c) == [i \in 1..n |-> Slot(b, (h + i - 1) % c)]

\* C25: after an expansion or a shrink the ring buffer holds the events it
\* held before, in the same order from head to tail, with head = 0 and
\* tail = count, and the buffer and the capacity are the newly sized ones; no
\* resize indexes the old buffer out of range.
C25_ResizeKeepsEvents ==
    [][\A p \in AllProcs :
        /\ ExpAdjust(p) =>
            /\ head' = 0 /\ tail' = count'
            /\ capacity' = Min(maxCapacity, loc[p].slots * growFactor)
            /\ buflen' = capacity'
            /\ LogicalSeq(buf', head', count', capacity')
                 = LogicalSeq(buf, loc[p].head, loc[p].slots, capacity)
        /\ ShrAdjust(p) =>
            /\ head' = 0 /\ tail' = count'
            /\ capacity' = ShrinkCapacity(loc[p].capacity)
            /\ buflen' = capacity'
            /\ LogicalSeq(buf', head', count', capacity')
                 = LogicalSeq(buf, loc[p].head, count, loc[p].capacity)
        /\ (ExpCopy(p) \/ ShrCopy(p)) => ~panicked']_vars

\* fewer than minCapacity Push calls and fewer than batch Pop calls have
\* begun on the open queue: no expansion and no shrink has run
NoResizeYet == eventID < minCapacity /\ popCounter < batch /\ ~closeCh

\* C26: under concurrent Push and Pop calls without a resize, no Pop reports
\* success with the nil of a slot that is not written yet, and no event is
\* lost or returned twice: once the calls have returned, the buffer holds
\* exactly the events whose Push returned nil and that no Pop returned.
C26_ConcurrentPushPop ==
    NoResizeYet =>
        /\ \A p \in AllProcs :
            (pc[p] = "idle" /\ res[p].op = "pop" /\ res[p].err = "nil")
                => res[p].ev # NilEv
        /\ (\A p \in AllProcs : pc[p] = "idle") =>
            /\ count = Len(pending)
            /\ LogicalSeq(buf, head % capacity, count, capacity) = pending

\* C27: a Dispatch that runs while or after Unregister or Close ran never
\* sends on a listener channel that has been closed: no round of its loop
\* panics.
C27_DispatchNeverPanics ==
    [][\A p \in AllProcs : DispatchStep(p) => ~panicked']_vars

\* C28: the snapshot of the listeners that a Dispatch under way ranges over
\* is unaffected by a concurrent Unregister of another listener: the
\* listeners of the rounds still to come stay the ones they were, so that
\* every matching listener that stays registered is offered the event once.
C28_SnapshotUnaffected ==
    [][\A p, q \in AllProcs :
        (UnregisterShift(q) /\ hpc[p] = "dispatch") =>
            \A k \in hloc[p].i..hloc[p].snap.len :
                SnapArr(hloc[p].snap)'[k] = SnapArr(hloc[p].snap)[k]]_vars

\* C29: no operation of the queue dereferences the buffer after Close has
\* cleared it: GetSize, and the loads of the buffer by Push and by Pop,
\* never panic.
C29_NoNilBufferDereference ==
    [][\A p \in AllProcs : (GetSize(p) \/ PushLoad(p) \/ PopLoad(p)) => ~panicked']_vars

\* C30: shrink runs on a tenth Pop call only, and only when
\* count < capacity / 4 and count > 32; it halves the capacity (never below
\* 32) and keeps the queued events in their order.  Every other step of a
\* Pop leaves the capacity and the tail alone, and moves head by the one
\* place of the pop itself.
C30_ShrinkOnTenthPop ==
    [][\A p \in AllProcs :
        /\ ShrLock(p) => popCounter % batch = 0 /\ shouldShrink(count, capacity)
        /\ ShrAdjust(p) =>
            /\ capacity' = ShrinkCapacity(loc[p].capacity)
            /\ capacity' >= minCapacity
            /\ LogicalSeq(buf', head', count', capacity')
                 = LogicalSeq(buf, loc[p].head, count, loc[p].capacity)
        /\ (PopEnter(p) \/ PopCount(p) \/ SsLock(p) \/ SsCheck(p) \/ PopLoad(p)
              \/ RPopCheck(p) \/ RPopLoad(p) \/ RPopCas(p) \/ RPopRead(p)
              \/ RPopClear(p) \/ PopDelete(p)) =>
            capacity' = capacity /\ head' = head /\ tail' = tail
        /\ RPopHead(p) =>
            capacity' = capacity /\ head' = head + 1 /\ tail' = tail]_vars

\* C31: a Watch that returns the error of its initial read leaves the
\* provider in StoppedState with no watchLoop goroutine started, so that a
\* later Watch can succeed and a later Close returns at once.
C31_FailedWatchLeavesStopped ==
    [][\A p \in AllProcs :
        (FPWatchReload(p) /\ ppc'[p] = "idle") =>
            /\ pres'.err # "nil"
            /\ fState' = StoppedState
            /\ fWg' = 0 /\ nLoops' = nLoops]_vars

\* C32: Close releases every lock it acquires: when a Close call that
\* stopped the provider returns, f.debounceLock is free, so that the
\* function of a timer that has expired can take the lock and complete.
C32_CloseReleasesLock ==
    [][\A p \in AllProcs :
        (FPCloseFinish(p) /\ ppc'[p] = "idle") =>
            ~fLock']_vars

\* the configuration that asyncLoop takes from m.watcher in this step
Received == FileConfig(Head(fChans[mWatcher].q).cfg)
Receives == asyncLoopSelect /\ fChans' # fChans

\* C33: for every configuration received from the provider that Normalize
\* accepts, asyncLoop makes one Dispatch of the global event first, then one
\* Dispatch of a size-class event for each of the categories Small, Medium
\* and Large, each once: four Dispatch calls, and none at any other time.
C33_GlobalThenSizeClasses ==
    [][/\ (Receives /\ Normalize(Received).err = "nil") => mLoop'.pc = "global"
       /\ dispatchGlobalEvent =>
            /\ nDispatch' = nDispatch + 1
            /\ mLoop'.pc = "sizeClass"
            /\ mLoop'.cats = {SmallSizeCategory, MediumSizeCategory, LargeSizeCategory}
       /\ dispatchSizeClassEvent =>
            /\ nDispatch' = nDispatch + 1
            /\ hloc'[LoopProc].ev.category \in mLoop.cats
            /\ mLoop'.cats = mLoop.cats \ {hloc'[LoopProc].ev.category}
       /\ asyncLoopAgain => mLoop.cats = {} /\ nDispatch % 4 = 0
       /\ nDispatch' # nDispatch => mLoop.pc \in {"global", "sizeClass"}]_vars

\* the four events of the first accepted configuration were dispatched and
\* the loop is back at its select
C33_Witness ==
    /\ mLoop.pc = "select" /\ nDispatch = 4 /\ hpc[LoopProc] = "idle"
    /\ listeners > 0

\* C34: when asyncLoop receives a configuration whose weights do not sum to
\* one, which Normalize rejects, it dispatches no event for it and goes back
\* to its select, so that a later valid configuration is still dispatched.
C34_RejectedIsDropped ==
    [][(Receives /\ ~AllSumToOne(Received)) =>
        /\ mLoop'.pc = "select"
        /\ nDispatch' = nDispatch
        /\ hpc' = hpc /\ chans' = chans]_vars

\* the initial configuration was rejected, the one a timer sent later was
\* valid and its four events were dispatched
C34_Witness ==
    /\ mLoop.pc = "select" /\ nDispatch = 4
    /\ mWatcher # 0 /\ fChans[mWatcher].q = <<>>
    /\ \E t \in 1..Len(fTimers) : fTimers[t].sent = 1 /\ fTimers[t].read = 1

\* the Dispatch of the global event is under way
GlobalDispatchUnderWay ==
    /\ mLoop.pc = "sizeClass" /\ mLoop.cats = BuildSizeClassStruct
    /\ hpc[LoopProc] = "dispatch"

C36_DispatchTerminates ==
    /\ [][\A p \in AllProcs :
            LET k == hloc[p].i
                snap == hloc[p].snap
                l == SnapArr(snap)[k]
            IN  /\ (DispatchStep(p) /\ ~panicked') =>
                    IF k > snap.len
                    THEN hpc'[p] = "idle"
                    ELSE /\ hpc'[p] = "dispatch"
                         /\ hloc'[p].i = k + 1 /\ hloc'[p].snap = snap
                /\ (/\ DispatchStep(p) /\ k <= snap.len /\ ~hCloseCh
                    /\ Matches(l, hloc[p].ev) /\ ~chans[l.ch].closed
                    /\ chans[l.ch].cap > 0 /\ Len(chans[l.ch].q) = chans[l.ch].cap) =>
                    /\ hloc'[p].last = "timeout" /\ chans' = chans
                    /\ hpc'[p] = "dispatch" /\ hloc'[p].i = k + 1]_vars
    /\ \A p \in SeqProcs : (hpc[p] = "dispatch") ~> (hpc[p] # "dispatch")

\* the first listener matched and its buffer was full of an older event: it
\* was given up on, and the second listener has got the event
C36_Witness ==
    \E p \in SeqProcs :
        /\ hpc[p] = "dispatch" /\ hloc[p].i = 3 /\ hloc[p].last = "sent" /\ ~hCloseCh
        /\ hloc[p].snap.len = 2 /\ listeners = 2
        /\ Matches(larr[1], hloc[p].ev)
        /\ chans[larr[1].ch].cap = 1 /\ Len(chans[larr[1].ch].q) = 1
        /\ chans[larr[1].ch].q[1].id # hloc[p].ev.id
        /\ chans[larr[2].ch].q = <<hloc[p].ev>>

\* C37: when the function of a debounce timer has reloaded the file and the
\* output channel is full, the configuration is dropped: the channel keeps
\* its contents, and the function returns with the debounce lock free.
C37_FullChannelDrops ==
    [][\A t \in 1..Len(fTimers) :
        (TimerFunc(t) /\ reloadFile(file).err = "nil"
            /\ Len(fChans[fCh].q) >= outputCap) =>
            /\ fChans' = fChans
            /\ fTimers'[t].st = "done" /\ fTimers'[t].sent = 0
            /\ ~fLock' /\ ~panicked']_vars

\* the function of a timer read a configuration from the file and sent
\* nothing, the channel being full
C37_Witness ==
    /\ fCh # 0 /\ Len(fChans[fCh].q) = outputCap
    /\ \E t \in 1..Len(fTimers) :
        /\ fTimers[t].kind = "func" /\ fTimers[t].st = "done"
        /\ fTimers[t].read # NoFile /\ fTimers[t].sent = 0

\* the row of a class in the arrays of L1: the number of the class
ClassNumber(sc) == sc

\* the state of L1 that the calls have to keep: no index out of range was
\* used, every counter is at most L1Sizes, the slots below a counter hold
\* pointers, and a call works on the row of its own class
L1Consistent ==
    /\ ~panicked
    /\ \A idx \in DOMAIN l1counters :
        /\ 0 <= l1counters[idx] /\ l1counters[idx] <= L1Sizes
        /\ \A j \in 1..l1counters[idx] :
            j <= Len(l1slots[idx]) /\ l1slots[idx][j] # NilPtr
    /\ \A p \in AllProcs :
        cpc[p] \in {"put_load", "put_cas"} => cloc[p].idx = ClassNumber(cloc[p].sc)

\* C38: under any interleaving of concurrent tryPut and tryAlloc calls on
\* L1, after every step 0 <= counters[i] <= L1Sizes for every class i, every
\* slot below the counter holds a pointer, and each call touches only the
\* counter and the row of its own class, inside [0, numSizeClasses).
C38_L1CountersAndSlots == [][L1Consistent']_vars

\* C39: a tryAlloc(c) of L1 that follows a tryPut(c, p) that returned true,
\* with no other call in between, returns p and takes one off the counter of
\* c; and a tryPut that returns true has stored its pointer in the row.
C39_L1PutThenAlloc ==
    [][\A p \in AllProcs :
        /\ \A sc \in CacheClasses :
            (/\ L1TryAlloc(p, sc)
             /\ cres.op = "l1put" /\ cres.ok /\ cres.sc = sc
             /\ \A q \in AllProcs : cpc[q] = "idle") =>
                /\ cres'.ptr = cres.ptr
                /\ l1counters'[ClassNumber(sc)] = l1counters[ClassNumber(sc)] - 1
        /\ (L1PutCas(p) /\ cres'.ok) =>
            \E idx \in DOMAIN l1slots' : \E j \in DOMAIN l1slots'[idx] :
                l1slots'[idx][j] = cres'.ptr]_vars

\* the entries L2 holds, and how often an entry is among them
Stored(slots, n) == SubSeq(slots, 1, n)
CountIn(seq, e) == Cardinality({i \in DOMAIN seq : seq[i] = e})

\* C40: tryAlloc(size) of L2 returns the pointer of the topmost stored entry
\* whose class holds size bytes, removes that entry and no other, and returns
\* nil only when no stored entry qualifies.
C40_L2AllocTakesTopmost ==
    [][\A p \in AllProcs : \A size \in CacheSizes :
        L2TryAlloc(p, size) =>
            LET before == Stored(l2slots, l2size)
                after == Stored(l2slots', l2size')
                found == {i \in 1..l2size :
                            sizeClassSizes[l2slots[i].sizeClass + 1] >= size}
            IN  IF found = {}
                THEN cres'.ptr = NilPtr /\ after = before
                ELSE LET top == CHOOSE i \in found : \A j \in found : j <= i IN
                     /\ cres'.ptr = l2slots[top].ptr
                     /\ l2size' = l2size - 1
                     /\ \A i \in 1..l2size :
                            CountIn(after, l2slots[i]) =
                                CountIn(before, l2slots[i])
                                    - (IF l2slots[i] = l2slots[top] THEN 1 ELSE 0)]_vars

====
